---------------------------- MODULE Spec2Model ----------------------------
(***************************************************************************)
(* TCI: runtime kernel (src/runtime/kernel.rs), preprocessor               *)
(* (src/preprocessor.rs), file store (src/filedb.rs) and struct layout     *)
(* (src/type_checker.rs, src/old/type_checker.rs).                         *)
(***************************************************************************)
EXTENDS Integers, Sequences, FiniteSets, TLC

(***************************************************************************)
(* Generic helpers                                                         *)
(***************************************************************************)
Min(a, b) == IF a < b THEN a ELSE b

Max(a, b) == IF a < b THEN b ELSE a

Range(s) == {s[i] : i \in 1..Len(s)}

IsPrefix(s, t) == Len(s) <= Len(t) /\ \A i \in 1..Len(s) : s[i] = t[i]

RECURSIVE SumSeq(_)
SumSeq(s) == IF s = <<>> THEN 0 ELSE Head(s) + SumSeq(Tail(s))

(***************************************************************************)
(* Runtime kernel: src/runtime/kernel.rs                                   *)
(***************************************************************************)
VARIABLES
    processes,              \* Kernel.processes: sequence of [status, fds]
    in_begin,               \* Kernel.in_begin
    input,                  \* Kernel.input (shared stdin buffer)
    output,                 \* Kernel.output: sequence of [tag, bytes]
    term_proc,              \* Kernel.term_proc
    current_proc,           \* Kernel.current_proc
    current_proc_op_count,  \* Kernel.current_proc_op_count
    active_count,           \* Kernel.active_count
    k_pc,                   \* "idle" | "run" (inside run_op_count) | "panic"
    count,                  \* run_op_count's local `count`
    k_ev,                   \* what the last kernel step did and returned (observation)
    k_quanta                \* slices granted per process since the runnable set last changed

kvars == <<processes, in_begin, input, output, term_proc, current_proc,
           current_proc_op_count, active_count, k_pc, count, k_ev, k_quanta>>

\* Bounds of the kernel model
MaxProcs == 3

MaxTermProcs == 2

MaxInput == 2

MaxOut == 2

MaxFds == 5

MaxQuanta == 2

\* Program constants
PROC_MAX_OP_COUNT == 5000

\* the op count at which a step slice that ends in an ecall stops: half a quantum
EcallAt == PROC_MAX_OP_COUNT \div 2

\* `!0` (all bits set), the "no process" value of term_proc and current_proc
NO_PROC == -1

Bytes == {"a", "b"}

ExitCodes == {0, 2}

VfsIndices == {0}

Budgets == {0, EcallAt, PROC_MAX_OP_COUNT, PROC_MAX_OP_COUNT + EcallAt}

TermBudgets == {PROC_MAX_OP_COUNT}

\* IRtStat
Running == [tag |-> "Running"]

Exited(c) == [tag |-> "Exited", code |-> c]

\* RuntimeStatus (returned to the host) and Result
RtRunning == [tag |-> "Running"]

RtBlocked(req) == [tag |-> "Blocked", req |-> req]

RtExited(c) == [tag |-> "Exited", code |-> c]

Ok(x) == [ok |-> x]

Err(e) == [err |-> e]

\* FdKind
TermIn == [kind |-> "TermIn"]

TermOut == [kind |-> "TermOut"]

TermErr == [kind |-> "TermErr"]

TermLog == [kind |-> "TermLog"]

FileSys(i) == [kind |-> "FileSys", idx |-> i]

\* values pushed on a process's operand stack by an ecall
PushVal(n) == [val |-> n]

PushErr(e) == [ecall_error |-> e]

NoEvent == [kind |-> "none"]

\* Process::new
ProcessNew == [status |-> Running]

\* Kernel::new
KernelNew ==
    /\ processes = <<>>
    /\ in_begin = 0
    /\ input = <<>>
    /\ output = <<>>
    /\ term_proc = NO_PROC
    /\ current_proc = NO_PROC
    /\ current_proc_op_count = 0
    /\ active_count = 0
    /\ k_pc = "idle"
    /\ count = 0
    /\ k_ev = NoEvent
    /\ k_quanta = <<>>

ZeroQuanta(n) == [i \in 1..n |-> 0]

\* mutant of MarkPrevTerminal: the previous terminal process is left as it is
MarkPrevTerminal_skip(procs, tp) == procs

\* load_program, kernel.rs 89-92: the previous terminal process is marked Exited(1)
MarkPrevTerminal(procs, tp) ==
    IF tp # NO_PROC
    THEN [procs EXCEPT ![tp + 1].status = Exited(1)]
    ELSE procs

\* Kernel::load_program
load_program(max_procs) ==
    /\ k_pc = "idle"
    /\ Len(processes) < max_procs
    /\ LET marked == MarkPrevTerminal(processes, term_proc)
           new_term == Len(processes)
       IN /\ term_proc' = new_term
          /\ current_proc' = IF current_proc = NO_PROC THEN new_term ELSE current_proc
          /\ in_begin' = 0
          /\ input' = <<>>
          /\ output' = <<>>
          /\ processes' = Append(marked, [status |-> ProcessNew.status,
                                          fds |-> <<TermIn, TermOut, TermOut, TermOut>>])
          /\ active_count' = active_count + 1
          /\ k_ev' = [kind |-> "load_program", val |-> new_term]
          /\ k_quanta' = ZeroQuanta(Len(processes) + 1)
    /\ UNCHANGED <<current_proc_op_count, k_pc, count>>


\* Kernel.input is a public field: the host appends the terminal's bytes to it
host_input ==
    /\ k_pc = "idle"
    /\ Len(input) < MaxInput
    /\ \E b \in Bytes : input' = Append(input, b)
    /\ k_ev' = [kind |-> "input"]
    /\ UNCHANGED <<processes, in_begin, output, term_proc, current_proc,
                   current_proc_op_count, active_count, k_pc, count, k_quanta>>

\* mutant of events: the list is returned but not reset
events_keep ==
    /\ k_pc = "idle"
    /\ output' = output
    /\ k_ev' = [kind |-> "events", val |-> output]
    /\ UNCHANGED <<processes, in_begin, input, term_proc, current_proc,
                   current_proc_op_count, active_count, k_pc, count, k_quanta>>

\* Kernel::events
events ==
    /\ k_pc = "idle"
    /\ output' = <<>>
    /\ k_ev' = [kind |-> "events", val |-> output]
    /\ UNCHANGED <<processes, in_begin, input, term_proc, current_proc,
                   current_proc_op_count, active_count, k_pc, count, k_quanta>>

\* Kernel::term_out (the payloads, concatenated in list order)
RECURSIVE ConcatPayloads(_)
ConcatPayloads(evs) ==
    IF evs = <<>> THEN <<>> ELSE Head(evs).bytes \o ConcatPayloads(Tail(evs))

term_out ==
    /\ k_pc = "idle"
    /\ output' = <<>>
    /\ k_ev' = [kind |-> "term_out", val |-> ConcatPayloads(output)]
    /\ UNCHANGED <<processes, in_begin, input, term_proc, current_proc,
                   current_proc_op_count, active_count, k_pc, count, k_quanta>>

(***************************************************************************)
(* Ecall requests an interpreter can raise, and what the collaborators     *)
(* outside the kernel (Memory::write_bytes, FileSystem) answer.            *)
(***************************************************************************)
Bufs == {<<"a">>, <<"b", "a">>}

FdInputs == 0..MaxFds

EcallRequests ==
    {[op |-> "Exit", code |-> c] : c \in ExitCodes}
    \cup {[op |-> "OpenFd", open_mode |-> m] : m \in {"Read", "Create", "CreateClear"}}
    \cup {[op |-> "ReadFd", len |-> l, fd |-> f] : l \in 0..MaxInput, f \in FdInputs}
    \cup {[op |-> "WriteFd", buf |-> b, fd |-> f] : b \in Bufs, f \in FdInputs}
    \cup {[op |-> "AppendFd", buf |-> b, fd |-> f] : b \in Bufs, f \in FdInputs}

\* the requests of the scheduling specification: exits, opens, and reads that
\* can fail in Memory::write_bytes
SchedRequests ==
    {r \in EcallRequests :
        \/ r.op = "Exit"
        \/ r.op = "OpenFd" /\ r.open_mode = "Read"
        \/ r.op = "ReadFd" /\ r.len = 1 /\ r.fd \in {0, MaxFds - 1}}

\* answers of the virtual file system and of Memory::write_bytes
ExtAnswers ==
    {[vfs |-> v, mem_ok |-> m] :
        v \in {Ok(i) : i \in VfsIndices} \cup {Err("VfsError")}, m \in BOOLEAN}

\* mutant of WriteEventOf: every terminal write is tagged as a stderr write
WriteEventOf_stderr(fdkind) == "StderrWrite"

\* the WriteEvent tag of the arms at kernel.rs 295-306 and 329-340
WriteEventOf(fdkind) ==
    CASE fdkind = TermOut -> "StdoutWrite"
      [] fdkind = TermErr -> "StderrWrite"
      [] fdkind = TermLog -> "StdlogWrite"

\* The write arm shared by WriteFd and AppendFd (kernel.rs 285-352)
ecall_write(proc, req, ext) ==
    LET p == processes[proc + 1]
        base == [procs |-> processes, in_begin |-> in_begin, input |-> input,
                 output |-> output, wrote |-> <<>>]
    IN IF req.fd + 1 > Len(p.fds)
       THEN base @@ [pushed |-> PushErr("DoesntExist"), val |-> Ok(RtRunning)]
       ELSE LET k == p.fds[req.fd + 1] IN
            IF k = TermIn
            THEN base @@ [pushed |-> PushErr("WriteTermIn"), val |-> Ok(RtRunning)]
            ELSE IF k \in {TermOut, TermErr, TermLog}
            THEN [base EXCEPT !.output =
                      Append(output, [tag |-> WriteEventOf(k), bytes |-> req.buf])]
                 @@ [pushed |-> PushVal(0), val |-> Ok(RtRunning)]
            ELSE base @@ [pushed |-> IF "ok" \in DOMAIN ext.vfs
                                     THEN PushVal(Len(req.buf))
                                     ELSE PushErr(ext.vfs.err),
                          val |-> Ok(RtBlocked(req))]

\* Kernel::ecall
ecall(proc, req, ext) ==
    LET p == processes[proc + 1]
        base == [procs |-> processes, in_begin |-> in_begin, input |-> input,
                 output |-> output, wrote |-> <<>>]
    IN CASE req.op = "Exit" ->
              [base EXCEPT !.procs = [processes EXCEPT ![proc + 1].status = Exited(req.code)]]
              @@ [pushed |-> [none |-> TRUE], val |-> Ok(RtExited(req.code))]
         [] req.op = "OpenFd" ->
              IF "ok" \in DOMAIN ext.vfs
              THEN [base EXCEPT !.procs =
                       [processes EXCEPT ![proc + 1].fds = Append(p.fds, FileSys(ext.vfs.ok))]]
                   @@ [pushed |-> PushVal(Len(p.fds)), val |-> Ok(RtBlocked(req))]
              ELSE base @@ [pushed |-> PushErr(ext.vfs.err), val |-> Ok(RtRunning)]
         [] req.op = "ReadFd" ->
              IF req.fd + 1 > Len(p.fds)
              THEN base @@ [pushed |-> PushErr("DoesntExist"), val |-> Ok(RtRunning)]
              ELSE LET k == p.fds[req.fd + 1] IN
                   CASE k = TermIn ->
                          LET end == Min(Len(input), req.len) IN
                          IF in_begin > end
                          THEN \* &bytes[in_begin..end] with in_begin > end panics
                               base @@ [pushed |-> [none |-> TRUE], val |-> [panic |-> TRUE]]
                          ELSE IF ~ext.mem_ok
                          THEN base @@ [pushed |-> [none |-> TRUE],
                                        val |-> Err("write_bytes")]
                          ELSE [base EXCEPT
                                   !.in_begin = IF end = Len(input) THEN 0 ELSE end,
                                   !.input = IF end = Len(input) THEN <<>> ELSE input,
                                   !.wrote = SubSeq(input, in_begin + 1, end)]
                               @@ [pushed |-> PushVal(end - in_begin), val |-> Ok(RtRunning)]
                     [] k = TermOut -> base @@ [pushed |-> PushErr("ReadTermOut"),
                                                val |-> Ok(RtRunning)]
                     [] k = TermErr -> base @@ [pushed |-> PushErr("ReadTermErr"),
                                                val |-> Ok(RtRunning)]
                     [] k = TermLog -> base @@ [pushed |-> PushErr("ReadTermLog"),
                                                val |-> Ok(RtRunning)]
                     [] OTHER ->
                          IF "ok" \in DOMAIN ext.vfs
                          THEN IF ~ext.mem_ok
                               THEN base @@ [pushed |-> [none |-> TRUE],
                                             val |-> Err("write_bytes")]
                               ELSE base @@ [pushed |-> PushVal(req.len),
                                             val |-> Ok(RtRunning)]
                          ELSE base @@ [pushed |-> PushErr(ext.vfs.err),
                                        val |-> Ok(RtRunning)]
         [] req.op \in {"WriteFd", "AppendFd"} -> ecall_write(proc, req, ext)


(***************************************************************************)
(* interpreter::run_op_count(memory, ops_allowed) -> (ran_count, res):     *)
(* runs up to ops_allowed ops and returns nothing (budget exhausted), an   *)
(* ecall request, or an error.                                             *)
(***************************************************************************)
InterpResults(ops_allowed, reqs) ==
    LET stops == IF ops_allowed = 0 THEN {} ELSE {Min(ops_allowed, EcallAt)}
    IN {[ran |-> ops_allowed, res |-> [none |-> TRUE]]}
       \cup {[ran |-> n, res |-> [ecall |-> e]] : n \in stops, e \in reqs}
       \cup {[ran |-> n, res |-> Err("IError")] : n \in stops}

\* the answers that the request can depend on
ExtAnswersFor(p, req) ==
    LET k == IF "fd" \in DOMAIN req /\ req.fd + 1 <= Len(p.fds)
             THEN p.fds[req.fd + 1].kind ELSE "none"
        vfs_any == {Ok(i) : i \in VfsIndices} \cup {Err("VfsError")}
        vfs_one == {Err("VfsError")}
    IN {a \in ExtAnswers :
          /\ a.vfs \in (IF req.op = "OpenFd" \/ k = "FileSys" THEN vfs_any ELSE vfs_one)
          /\ a.mem_ok \in (IF req.op = "ReadFd" /\ k \in {"TermIn", "FileSys"}
                           THEN BOOLEAN ELSE {TRUE})}

\* caps of the model: the fd list and the output list stay within their bounds
WithinCaps(req) ==
    LET p == processes[current_proc + 1] IN
    /\ req.op = "OpenFd" => Len(p.fds) < MaxFds
    /\ req.op \in {"WriteFd", "AppendFd"} => Len(output) < MaxOut

\* Kernel::run_op_count, entry
run_op_count_call(budgets) ==
    /\ k_pc = "idle"
    /\ SumSeq(k_quanta) < MaxQuanta
    /\ \E budget \in budgets : count' = budget
    /\ k_pc' = "run"
    /\ k_ev' = [kind |-> "call"]
    /\ UNCHANGED <<processes, in_begin, input, output, term_proc, current_proc,
                   current_proc_op_count, active_count, k_quanta>>

LoopCond == count > 0 /\ active_count # 0

\* mutant of IsExited: only the status Exited(1) is recognised
IsExited_only1(p) == p.status = Exited(1)

\* `if let IRtStat::Exited(_) = proc.tag().status` (kernel.rs 156)
IsExited(p) == p.status.tag = "Exited"

\* mutant of ActiveAfterEcall: the Err arm forgets the decrement
ActiveAfterEcall_noerr(val) ==
    IF "ok" \in DOMAIN val /\ val.ok.tag = "Exited"
    THEN active_count - 1
    ELSE active_count

\* the match on the ecall's value (kernel.rs 179-188)
ActiveAfterEcall(val) ==
    IF "err" \in DOMAIN val \/ val.ok.tag = "Exited"
    THEN active_count - 1
    ELSE active_count

\* self.processes.get_mut(self.current_proc as usize) is Some
CurrentExists == current_proc # NO_PROC /\ current_proc < Len(processes)

\* mutant of NextCursor: the cursor wraps one position early
NextCursor_early ==
    IF current_proc + 2 >= Len(processes) THEN 0 ELSE current_proc + 1

\* cursor advance (kernel.rs 158-161 and 196-199)
NextCursor ==
    IF current_proc + 1 = Len(processes) THEN 0 ELSE current_proc + 1

\* mutant of OpsAllowed: the whole budget is granted
OpsAllowed_budget(budget, op_count) == budget

\* kernel.rs 165: min(count, PROC_MAX_OP_COUNT - self.current_proc_op_count)
OpsAllowed(budget, op_count) == Min(budget, PROC_MAX_OP_COUNT - op_count)

\* run_op_count: the loop condition fails (kernel.rs 202-206)
run_op_count_return ==
    /\ k_pc = "run"
    /\ ~LoopCond
    /\ k_pc' = "idle"
    /\ k_ev' = [kind |-> "return",
                val |-> IF count = 0 THEN Ok(RtRunning) ELSE Ok(RtExited(0))]
    /\ count' = 0
    /\ UNCHANGED <<processes, in_begin, input, output, term_proc, current_proc,
                   current_proc_op_count, active_count, k_quanta>>

\* run_op_count: one iteration with the cursor on an exited process (kernel.rs 156-163)
run_op_count_skip ==
    /\ k_pc = "run"
    /\ LoopCond
    /\ CurrentExists
    /\ IsExited(processes[current_proc + 1])
    /\ current_proc_op_count' = 0
    /\ current_proc' = NextCursor
    /\ k_ev' = [kind |-> "skip", proc |-> current_proc]
    /\ UNCHANGED <<processes, in_begin, input, output, term_proc, active_count,
                   k_pc, count, k_quanta>>

\* run_op_count: one iteration that steps the interpreter (kernel.rs 146-154, 165-199)
run_op_count_step(reqs) ==
    /\ k_pc = "run"
    /\ LoopCond
    /\ IF ~CurrentExists
       THEN /\ k_pc' = "idle"
            /\ k_ev' = [kind |-> "return", val |-> Err("NoProcesses")]
            /\ count' = 0
            /\ UNCHANGED <<processes, in_begin, input, output, term_proc, current_proc,
                           current_proc_op_count, active_count, k_quanta>>
       ELSE
       /\ ~IsExited(processes[current_proc + 1])
       /\ LET ops_allowed == OpsAllowed(count, current_proc_op_count)
              before == processes[current_proc + 1].status
          IN \E r \in InterpResults(ops_allowed, reqs) :
             IF "none" \in DOMAIN r.res
             THEN \* Ok(None): rotate
                  /\ count' = count - r.ran
                  /\ current_proc_op_count' = 0
                  /\ current_proc' = NextCursor
                  /\ k_quanta' = [k_quanta EXCEPT ![current_proc + 1] = @ + 1]
                  /\ k_ev' = [kind |-> "step", proc |-> current_proc, before |-> before,
                              res |-> "none"]
                  /\ UNCHANGED <<processes, in_begin, input, output, term_proc,
                                 active_count, k_pc>>
             ELSE IF "err" \in DOMAIN r.res
             THEN \* Err(e) from the interpreter
                  /\ processes' = [processes EXCEPT ![current_proc + 1].status = Exited(1)]
                  /\ active_count' = active_count - 1
                  /\ current_proc_op_count' = current_proc_op_count + r.ran
                  /\ count' = 0
                  /\ k_pc' = "idle"
                  /\ k_quanta' = ZeroQuanta(Len(processes))
                  /\ k_ev' = [kind |-> "step", proc |-> current_proc, before |-> before,
                              res |-> "error", val |-> r.res]
                  /\ UNCHANGED <<in_begin, input, output, term_proc, current_proc>>
             ELSE \* Ok(Some(ecall))
                  /\ WithinCaps(r.res.ecall)
                  /\ \E ext \in ExtAnswersFor(processes[current_proc + 1], r.res.ecall) :
                     LET e == ecall(current_proc, r.res.ecall, ext) IN
                     IF "panic" \in DOMAIN e.val
                     THEN /\ k_pc' = "panic"
                          /\ k_ev' = [kind |-> "step", proc |-> current_proc,
                                      before |-> before, res |-> "panic",
                                      req |-> r.res.ecall]
                          /\ UNCHANGED <<processes, in_begin, input, output, term_proc,
                                         current_proc, current_proc_op_count,
                                         active_count, count, k_quanta>>
                     ELSE /\ processes' =
                               IF "err" \in DOMAIN e.val
                               THEN [e.procs EXCEPT ![current_proc + 1].status = Exited(1)]
                               ELSE e.procs
                          /\ active_count' = ActiveAfterEcall(e.val)
                          /\ in_begin' = e.in_begin
                          /\ input' = e.input
                          /\ output' = e.output
                          /\ current_proc_op_count' = current_proc_op_count + r.ran
                          /\ count' = 0
                          /\ k_pc' = "idle"
                          /\ k_quanta' = ZeroQuanta(Len(processes))
                          /\ k_ev' = [kind |-> "step", proc |-> current_proc,
                                      before |-> before,
                                      res |-> IF "err" \in DOMAIN e.val
                                              THEN "ecall_error" ELSE "ecall",
                                      req |-> r.res.ecall, pushed |-> e.pushed,
                                      wrote |-> e.wrote, val |-> e.val]
                          /\ UNCHANGED <<term_proc, current_proc>>

(***************************************************************************)
(* Preprocessor: src/preprocessor.rs                                       *)
(***************************************************************************)
VARIABLES
    pp_items,           \* the input as a list of definitions, tokens and invocations
    pp_tokens,          \* preprocess_file's argument `tokens`
    pp_pos,             \* tokens consumed by the iterator `toks`
    pp_macros,          \* `macros`: symbol -> Macro
    pp_output,          \* `output`
    pp_pc,              \* "scan" | "args" | "done" | "error"
    pp_err,             \* the error returned, "" if none
    pp_call,            \* the last invocation: [id, lparen (index of its '('), out0, done]
    pp_actual_params,   \* `actual_params`
    pp_current_tok      \* `current_tok`

ppvars == <<pp_items, pp_tokens, pp_pos, pp_macros, pp_output, pp_pc, pp_err, pp_call,
            pp_actual_params, pp_current_tok>>

\* Bounds of the preprocessor model
MaxArgToks == 6

MaxArgs == 3

\* TokenKind
Ident(id) == [k |-> "Ident", id |-> id]

LParen == [k |-> "LParen"]

RParen == [k |-> "RParen"]

Comma == [k |-> "Comma"]

MacroDef(id) == [k |-> "MacroDef", id |-> id]

FuncMacroDef(id) == [k |-> "FuncMacroDef", id |-> id]

MacroDefEnd == [k |-> "MacroDefEnd"]

Plus == [k |-> "Plus"]

NoTok == [k |-> "none"]

\* the loops of preprocess_file lines 18-22 and 37-41: collect the tokens of a
\* definition up to MacroDefEnd, starting after `pos` consumed tokens
RECURSIVE CollectDef(_, _, _)
CollectDef(toks, pos, acc) ==
    IF pos >= Len(toks)
    THEN [ok |-> FALSE]
    ELSE IF toks[pos + 1] = MacroDefEnd
         THEN [ok |-> TRUE, body |-> acc, pos |-> pos + 1]
         ELSE CollectDef(toks, pos + 1, Append(acc, toks[pos + 1]))

\* parse_func_macro: the loop over the parameter list, `current` counted from 0
RECURSIVE ParseParams(_, _, _)
ParseParams(macro_def, current, params) ==
    IF current >= Len(macro_def)
    THEN [ok |-> FALSE, err |-> "expected token"]
    ELSE LET tok == macro_def[current + 1] IN
         IF tok.k # "Ident"
         THEN [ok |-> FALSE, err |-> "expected a function macro parameter"]
         ELSE IF current + 1 >= Len(macro_def)
         THEN [ok |-> FALSE, err |-> "expected token"]
         ELSE LET nxt == macro_def[current + 2] IN
              IF nxt = RParen
              THEN [ok |-> TRUE, params |-> Append(params, tok.id), current |-> current + 1]
              ELSE IF nxt = Comma
              THEN ParseParams(macro_def, current + 2, Append(params, tok.id))
              ELSE [ok |-> FALSE, err |-> "expected a ')' to end macro parameters or a comma"]

\* parse_func_macro
parse_func_macro(macro_def) ==
    IF Len(macro_def) < 2
    THEN [ok |-> FALSE, err |-> "expected token"]
    ELSE LET r == ParseParams(macro_def, 1, <<>>) IN
         IF ~r.ok
         THEN r
         ELSE [ok |-> TRUE,
               macro |-> [kind |-> "Func", params |-> r.params,
                          toks |-> SubSeq(macro_def, r.current + 2, Len(macro_def))]]

\* lines 131-134: params_hash, a later parameter of the same name overwrites
RECURSIVE ParamsHash(_, _, _)
ParamsHash(macro_params, actual_params, idx) ==
    IF idx > Len(actual_params)
    THEN << >>
    ELSE (macro_params[idx] :> actual_params[idx])
         @@ ParamsHash(macro_params, actual_params, idx + 1)

\* mutant of expand_macro: only the first token of an argument is substituted
RECURSIVE expand_macro_first(_, _)
expand_macro_first(macro_def, params) ==
    IF macro_def = << >>
    THEN << >>
    ELSE LET tok == Head(macro_def) IN
         (IF tok.k = "Ident" /\ tok.id \in DOMAIN params
          THEN SubSeq(params[tok.id], 1, 1)
          ELSE <<tok>>) \o expand_macro_first(Tail(macro_def), params)

\* expand_macro
RECURSIVE expand_macro(_, _)
expand_macro(macro_def, params) ==
    IF macro_def = << >>
    THEN << >>
    ELSE LET tok == Head(macro_def) IN
         (IF tok.k = "Ident" /\ tok.id \in DOMAIN params
          THEN params[tok.id]
          ELSE <<tok>>) \o expand_macro(Tail(macro_def), params)

\* the inner while of lines 94-106: one argument, starting at current_tok
RECURSIVE ReadParam(_, _, _, _, _)
ReadParam(toks, pos, current_tok, paren_count, current_param) ==
    IF paren_count # 0 \/ (current_tok # RParen /\ current_tok # Comma)
    THEN IF pos >= Len(toks)
         THEN [ok |-> FALSE]
         ELSE ReadParam(toks, pos + 1, toks[pos + 1],
                        CASE current_tok = LParen -> paren_count + 1
                          [] current_tok = RParen -> paren_count - 1
                          [] OTHER -> paren_count,
                        Append(current_param, current_tok))
    ELSE [ok |-> TRUE, param |-> current_param, current_tok |-> current_tok, pos |-> pos]

\* mutant of SpliceBody: identifiers of the body that name an object-like macro
\* are expanded once more
SpliceBody_rescan(macros, toks) ==
    IF toks = << >>
    THEN << >>
    ELSE LET F[i \in 0..Len(toks)] ==
                 IF i = 0 THEN << >>
                 ELSE F[i - 1] \o
                      (IF /\ toks[i].k = "Ident"
                          /\ toks[i].id \in DOMAIN macros
                          /\ macros[toks[i].id].kind = "Value"
                       THEN macros[toks[i].id].toks
                       ELSE <<toks[i]>>)
         IN F[Len(toks)]

\* line 70, MacroKind::Value(toks): output.extend_from_slice(toks)
SpliceBody(macros, toks) == toks

\* lines 49 and 57: output.push(*tok)
PassThrough(out, tok) == Append(out, tok)

PPFail(msg) ==
    /\ pp_pc' = "error"
    /\ pp_err' = msg
    /\ UNCHANGED <<pp_tokens, pp_pos, pp_macros, pp_output, pp_call,
                   pp_actual_params, pp_current_tok>>

\* lines 115-137: the argument count is checked and the expansion is appended
PPFinishCall(macro_def, actual_params, pos, current_tok) ==
    IF Len(macro_def.params) # Len(actual_params)
    THEN /\ pp_pc' = "error"
         /\ pp_err' = "provided wrong number of arguments to macro"
         /\ pp_actual_params' = actual_params
         /\ pp_pos' = pos
         /\ pp_current_tok' = current_tok
         /\ UNCHANGED <<pp_tokens, pp_macros, pp_output>>
    ELSE /\ pp_output' = pp_output \o
                expand_macro(macro_def.toks, ParamsHash(macro_def.params, actual_params, 1))
         /\ pp_pc' = "scan"
         /\ pp_actual_params' = actual_params
         /\ pp_pos' = pos
         /\ pp_current_tok' = current_tok
         /\ UNCHANGED <<pp_tokens, pp_macros, pp_err>>

\* preprocess_file: one iteration of `while let Some(mut tok) = toks.next()`, up to
\* the argument loop of a function-like macro
pp_scan ==
    /\ pp_pc = "scan"
    /\ IF pp_pos >= Len(pp_tokens)
       THEN /\ pp_pc' = "done"
            /\ UNCHANGED <<pp_tokens, pp_pos, pp_macros, pp_output, pp_err, pp_call,
                           pp_actual_params, pp_current_tok>>
       ELSE LET tok == pp_tokens[pp_pos + 1] IN
            CASE tok.k = "MacroDef" ->
                   LET r == CollectDef(pp_tokens, pp_pos + 1, << >>) IN
                   IF ~r.ok
                   THEN PPFail("expected token")
                   ELSE /\ pp_macros' = (tok.id :> [kind |-> "Value", toks |-> r.body])
                                        @@ pp_macros
                        /\ pp_pos' = r.pos
                        /\ UNCHANGED <<pp_tokens, pp_output, pp_pc, pp_err, pp_call,
                                       pp_actual_params, pp_current_tok>>
              [] tok.k = "FuncMacroDef" ->
                   LET r == CollectDef(pp_tokens, pp_pos + 1, << >>) IN
                   IF ~r.ok
                   THEN PPFail("expected token")
                   ELSE LET m == parse_func_macro(r.body) IN
                        IF ~m.ok
                        THEN PPFail(m.err)
                        ELSE /\ pp_macros' = (tok.id :> m.macro) @@ pp_macros
                             /\ pp_pos' = r.pos
                             /\ UNCHANGED <<pp_tokens, pp_output, pp_pc, pp_err, pp_call,
                                            pp_actual_params, pp_current_tok>>
              [] tok.k = "Ident" /\ tok.id \in DOMAIN pp_macros ->
                   LET macro_def == pp_macros[tok.id] IN
                   IF macro_def.kind = "Value"
                   THEN /\ pp_output' = pp_output \o SpliceBody(pp_macros, macro_def.toks)
                        /\ pp_pos' = pp_pos + 1
                        /\ UNCHANGED <<pp_tokens, pp_macros, pp_pc, pp_err, pp_call,
                                       pp_actual_params, pp_current_tok>>
                   ELSE IF pp_pos + 1 >= Len(pp_tokens)
                   THEN PPFail("expected token")
                   ELSE IF pp_tokens[pp_pos + 2] # LParen
                   THEN PPFail("expected a left paren '(' because of function macro invokation")
                   ELSE IF pp_pos + 2 >= Len(pp_tokens)
                   THEN PPFail("expected token")
                   ELSE LET current_tok == pp_tokens[pp_pos + 3] IN
                        IF current_tok = RParen
                        THEN /\ pp_call' = [id |-> tok.id, lparen |-> pp_pos + 2,
                                          out0 |-> Len(pp_output), done |-> TRUE]
                             /\ PPFinishCall(macro_def, << >>, pp_pos + 3, current_tok)
                        ELSE /\ pp_pc' = "args"
                             /\ pp_call' = [id |-> tok.id, lparen |-> pp_pos + 2,
                                            out0 |-> Len(pp_output), done |-> FALSE]
                             /\ pp_actual_params' = << >>
                             /\ pp_current_tok' = current_tok
                             /\ pp_pos' = pp_pos + 3
                             /\ UNCHANGED <<pp_tokens, pp_macros, pp_output, pp_err>>
              [] OTHER ->
                   /\ pp_output' = PassThrough(pp_output, tok)
                   /\ pp_pos' = pp_pos + 1
                   /\ UNCHANGED <<pp_tokens, pp_macros, pp_pc, pp_err, pp_call,
                                  pp_actual_params, pp_current_tok>>

\* preprocess_file: one iteration of the `loop` of lines 92-112, and lines 115-137
\* when it breaks
pp_arg_loop ==
    /\ pp_pc = "args"
    /\ Len(pp_actual_params) < MaxArgs
    /\ LET r == ReadParam(pp_tokens, pp_pos, pp_current_tok, 0, << >>) IN
       IF ~r.ok
       THEN PPFail("expected token")
       ELSE IF r.current_tok = RParen
       THEN /\ pp_call' = [pp_call EXCEPT !.done = TRUE]
            /\ PPFinishCall(pp_macros[pp_call.id], Append(pp_actual_params, r.param),
                            r.pos, r.current_tok)
       ELSE /\ pp_actual_params' = Append(pp_actual_params, r.param)
            /\ pp_current_tok' = r.current_tok
            /\ pp_pos' = r.pos
            /\ UNCHANGED <<pp_tokens, pp_macros, pp_output, pp_pc, pp_err, pp_call>>

\* the inputs of preprocess_file: a definition of F, then F( and argument tokens
SeqsUpTo(S, n) == UNION {[1..m -> S] : m \in 0..n}

DefF1 ==
    <<FuncMacroDef("F"), LParen, Ident("x"), RParen,
      Ident("x"), Plus, Ident("x"), MacroDefEnd>>

DefF2 ==
    <<FuncMacroDef("F"), LParen, Ident("x"), Comma, Ident("y"), RParen,
      Ident("y"), Plus, Ident("x"), MacroDefEnd>>

ArgAlphabet == {LParen, RParen, Comma, Ident("a"), Ident("b")}

PPInputs ==
    {d \o <<Ident("F"), LParen>> \o args :
        d \in {DefF1, DefF2}, args \in SeqsUpTo(ArgAlphabet, MaxArgToks)}

\* preprocess_file lines 6-8
PPInit(inputs) ==
    /\ pp_items = << >>
    /\ pp_tokens \in inputs
    /\ pp_pos = 0
    /\ pp_macros = << >>
    /\ pp_output = << >>
    /\ pp_pc = "scan"
    /\ pp_err = ""
    /\ pp_call = [id |-> "", lparen |-> 0, out0 |-> 0, done |-> FALSE]
    /\ pp_actual_params = << >>
    /\ pp_current_tok = NoTok

\* the inputs of preprocess_file as lists of items: definitions of object-like
\* and function-like macros, single tokens, and invocations with one argument
MaxItems == 4

ObjDef(id, body) == [t |-> "def", id |-> id, body |-> body]

FuncDef(id, param, body) == [t |-> "fdef", id |-> id, param |-> param, body |-> body]

TokItem(tok) == [t |-> "tok", tok |-> tok]

CallItem(id, arg) == [t |-> "call", id |-> id, arg |-> arg]

PPItems ==
    {ObjDef("A", <<Ident("B"), Plus>>),
     ObjDef("B", <<Ident("A")>>),
     FuncDef("G", "x", <<Ident("x"), Ident("A")>>),
     TokItem(Ident("A")), TokItem(Ident("B")), TokItem(Plus), TokItem(RParen),
     CallItem("G", <<Ident("B"), Plus>>)}

\* the tokens the lexer hands to preprocess_file for an item
ItemTokens(item) ==
    CASE item.t = "def" -> <<MacroDef(item.id)>> \o item.body \o <<MacroDefEnd>>
      [] item.t = "fdef" -> <<FuncMacroDef(item.id), LParen, Ident(item.param), RParen>>
                            \o item.body \o <<MacroDefEnd>>
      [] item.t = "tok" -> <<item.tok>>
      [] item.t = "call" -> <<Ident(item.id), LParen>> \o item.arg \o <<RParen>>

RECURSIVE FlattenItems(_)
FlattenItems(items) ==
    IF items = << >> THEN << >>
    ELSE ItemTokens(Head(items)) \o FlattenItems(Tail(items))

\* the three definitions, as a header would make them, before any use
PPPrelude ==
    <<ObjDef("A", <<Ident("B"), Plus>>),
      ObjDef("B", <<Ident("A")>>),
      FuncDef("G", "x", <<Ident("x"), Ident("A")>>)>>

MaxUses == 3

\* what follows the header: the tokens and invocations of PPItems, and an
\* invocation that spans lines with a #define line between its parentheses
\* (lex_macro runs after every newline, lexer.rs line 291)
PPUses ==
    {i \in PPItems : i.t \in {"tok", "call"}}
        \cup {CallItem("G", <<MacroDef("A"), Plus, MacroDefEnd>>)}

PPItemInputs ==
    SeqsUpTo(PPItems, MaxItems) \cup {PPPrelude \o s : s \in SeqsUpTo(PPUses, MaxUses)}

PPInitItems(inputs) ==
    /\ pp_items \in inputs
    /\ pp_tokens = FlattenItems(pp_items)
    /\ pp_pos = 0
    /\ pp_macros = << >>
    /\ pp_output = << >>
    /\ pp_pc = "scan"
    /\ pp_err = ""
    /\ pp_call = [id |-> "", lparen |-> 0, out0 |-> 0, done |-> FALSE]
    /\ pp_actual_params = << >>
    /\ pp_current_tok = NoTok

(***************************************************************************)
(* File store, slim variant: src/filedb.rs (FileDbSlim)                    *)
(***************************************************************************)
VARIABLES
    fdb_files,          \* FileDbSlim.files: sequence of Option<File>
    fdb_file_names,     \* FileDbSlim.file_names: name -> index into files
    fdb_size,           \* FileDbSlim.size
    fdb_garbage_size,   \* FileDbSlim.garbage_size
    fdb_empty_slots,    \* FileDbSlim.empty_slots
    fdb_ev              \* the last call: [op, arg, source, ret, gc]

fdbvars == <<fdb_files, fdb_file_names, fdb_size, fdb_garbage_size,
             fdb_empty_slots, fdb_ev>>

\* Bounds of the file store model
MaxFdbSize == 200

BigLines == 14

\* names and sources are sequences of characters
FdbNames == {<<"a">>, <<"/", "a">>, <<"b">>}

SmallSource == <<"x">>

BigSource == [i \in 1..BigLines |-> "\n"]

FdbSources == {SmallSource, BigSource}

NoFile == [none |-> TRUE]

\* util.rs align_usize
align_usize(size, align) ==
    IF size = 0 THEN 0 ELSE ((size - 1) \div align) * align + align

\* codespan_reporting line_starts: 0, and the index after every newline
line_starts(source) ==
    <<0>> \o SelectSeq([i \in 1..Len(source) |-> i],
                       LAMBDA i : source[i] = "\n")

\* File::new
FileNew(name, source) ==
    [name |-> name, source |-> source, line_starts |-> line_starts(source)]

\* File::size
FileSize(file) ==
    align_usize(Len(file.name) + Len(file.source), 8) + Len(file.line_starts) * 8

\* add_internal lines 266-275: the name with a leading '/'
CanonicalName(file_name) ==
    IF file_name[1] = "/" THEN file_name ELSE <<"/">> \o file_name

\* FileDbSlim::with_capacity
FdbEmpty ==
    [files |-> << >>, file_names |-> << >>, size |-> 0, garbage_size |-> 0,
     empty_slots |-> << >>]

\* FileDbSlim::add_internal on the store `db`: the store after it and the id returned
add_internal(db, file_name, source) ==
    LET name == CanonicalName(file_name)
        file == FileNew(name, source)
        size1 == db.size + FileSize(file)
    IN IF name \in DOMAIN db.file_names
       THEN LET file_idx == db.file_names[name]
                old == db.files[file_idx + 1]
            IN [db |-> [db EXCEPT !.garbage_size = @ + FileSize(old),
                                  !.size = size1 - FileSize(old),
                                  !.files[file_idx + 1] = file],
                ret |-> file_idx + 1]
       ELSE LET popped == db.empty_slots # << >>
                file_idx == IF popped THEN db.empty_slots[Len(db.empty_slots)]
                            ELSE Len(db.files)
                files1 == IF popped THEN db.files ELSE Append(db.files, NoFile)
            IN [db |-> [db EXCEPT
                          !.empty_slots = IF popped
                                          THEN SubSeq(@, 1, Len(@) - 1) ELSE @,
                          !.size = size1 + FileSize(file),
                          !.files = [files1 EXCEPT ![file_idx + 1] = file],
                          !.file_names = (name :> file_idx) @@ @],
                ret |-> file_idx + 1]

\* FileDbSlim::copy_gc: the loop over self.files, from index idx (0-based)
RECURSIVE copy_gc_from(_, _, _)
copy_gc_from(files, idx, new) ==
    IF idx >= Len(files)
    THEN new
    ELSE LET file == files[idx + 1] IN
         copy_gc_from(files, idx + 1,
             IF file # NoFile
             THEN add_internal(new, file.name, file.source).db
             ELSE [new EXCEPT !.empty_slots = Append(@, idx),
                              !.files = Append(@, NoFile)])

\* FileDbSlim::copy_gc
copy_gc(db) == copy_gc_from(db.files, 0, FdbEmpty)

FdbState ==
    [files |-> fdb_files, file_names |-> fdb_file_names, size |-> fdb_size,
     garbage_size |-> fdb_garbage_size, empty_slots |-> fdb_empty_slots]

FdbSet(db) ==
    /\ fdb_files' = db.files
    /\ fdb_file_names' = db.file_names
    /\ fdb_size' = db.size
    /\ fdb_garbage_size' = db.garbage_size
    /\ fdb_empty_slots' = db.empty_slots

\* FileDbSlim::new
FdbInit ==
    /\ fdb_files = << >>
    /\ fdb_file_names = << >>
    /\ fdb_size = 0
    /\ fdb_garbage_size = 0
    /\ fdb_empty_slots = << >>
    /\ fdb_ev = [op |-> "new"]

\* FileDbSlim::add
fdb_add ==
    /\ fdb_size <= MaxFdbSize
    /\ \E file_name \in FdbNames, source \in FdbSources :
          LET gc == fdb_garbage_size > fdb_size * 4
              db == IF gc THEN copy_gc(FdbState) ELSE FdbState
              r == add_internal(db, file_name, source)
          IN /\ FdbSet(r.db)
             /\ fdb_ev' = [op |-> "add", arg |-> file_name, source |-> source,
                           ret |-> r.ret, gc |-> gc]

\* FileDbSlim::remove_str
fdb_remove_str ==
    \E file \in FdbNames \cup {CanonicalName(n) : n \in FdbNames} :
       IF file \notin DOMAIN fdb_file_names
       THEN /\ fdb_ev' = [op |-> "remove_str", arg |-> file, ret |-> FALSE, gc |-> FALSE]
            /\ UNCHANGED <<fdb_files, fdb_file_names, fdb_size, fdb_garbage_size,
                           fdb_empty_slots>>
       ELSE LET idx == fdb_file_names[file]
                file_data == fdb_files[idx + 1]
            IN /\ fdb_file_names' = [n \in DOMAIN fdb_file_names \ {file} |->
                                        fdb_file_names[n]]
               /\ fdb_files' = [fdb_files EXCEPT ![idx + 1] = NoFile]
               /\ fdb_garbage_size' = fdb_garbage_size + FileSize(file_data)
               /\ fdb_size' = fdb_size - FileSize(file_data)
               /\ fdb_empty_slots' = Append(fdb_empty_slots, idx)
               /\ fdb_ev' = [op |-> "remove_str", arg |-> file, ret |-> TRUE,
                             gc |-> FALSE]

\* FileDbSlim::remove_id
fdb_remove_id ==
    \E id \in 1..(Len(fdb_files) + 1) :
       LET file == id - 1 IN
       IF file >= Len(fdb_files) \/ fdb_files[file + 1] = NoFile
       THEN /\ fdb_ev' = [op |-> "remove_id", arg |-> id, ret |-> FALSE, gc |-> FALSE]
            /\ UNCHANGED <<fdb_files, fdb_file_names, fdb_size, fdb_garbage_size,
                           fdb_empty_slots>>
       ELSE LET file_data == fdb_files[file + 1] IN
            /\ fdb_files' = [fdb_files EXCEPT ![file + 1] = NoFile]
            /\ fdb_garbage_size' = fdb_garbage_size + FileSize(file_data)
            /\ fdb_size' = fdb_size - FileSize(file_data)
            /\ fdb_file_names' = [n \in DOMAIN fdb_file_names \ {file_data.name} |->
                                     fdb_file_names[n]]
            /\ fdb_empty_slots' = Append(fdb_empty_slots, file)
            /\ fdb_ev' = [op |-> "remove_id", arg |-> id, ret |-> TRUE, gc |-> FALSE]

(***************************************************************************)
(* Struct layout: src/type_checker.rs (check_file::check_type)             *)
(***************************************************************************)
VARIABLES
    tc_members,         \* defn.members: the member types in declaration order
    tc_idx,             \* members the loop has laid out
    tc_size,            \* local `size`
    tc_align,           \* local `align`
    tc_typed_members,   \* local `typed_members`: [decl_type, offset]
    tc_sa,              \* the SizeAlign recorded for the struct
    tc_pc               \* "members", "done" or "panic"

tcvars == <<tc_members, tc_idx, tc_size, tc_align, tc_typed_members, tc_sa, tc_pc>>

MaxMembers == 3

\* members of primitive kind, by value or behind one pointer
MemberTypes == [kind : {"I32", "Char", "Void"}, pointer_count : {0, 1}]

\* ast.rs sa
sa(size, align) == [size |-> size, align |-> align]

\* ast.rs TCType::size
TCTypeSize(t) ==
    IF t.pointer_count > 0 THEN 8
    ELSE CASE t.kind = "I32" -> 4
           [] t.kind = "Char" -> 1
           [] t.kind = "Void" -> 0

\* ast.rs TCType::align
TCTypeAlign(t) ==
    IF t.pointer_count > 0 THEN 8
    ELSE CASE t.kind = "I32" -> 4
           [] t.kind = "Char" -> 1
           [] t.kind = "Void" -> 0

\* util.rs align_u32; the division panics when align = 0 and size # 0
align_u32_panics(size, align) == size # 0 /\ align = 0

align_u32(size, align) ==
    IF size = 0 THEN 0 ELSE ((size - 1) \div align) * align + align

\* check_type line 924: `let offset = size;`
MemberOffset(size, m_sa) == size

TcInit(inputs) ==
    /\ tc_members \in inputs
    /\ tc_idx = 0
    /\ tc_size = 0
    /\ tc_align = 0
    /\ tc_typed_members = << >>
    /\ tc_sa = sa(0, 0)
    /\ tc_pc = "members"

TcInputs == UNION {[1..n -> MemberTypes] : n \in 0..MaxMembers}

\* one turn of the loop over defn.members
check_type_member ==
    /\ tc_pc = "members"
    /\ tc_idx < Len(tc_members)
    /\ LET m_type == tc_members[tc_idx + 1]
           m_sa == sa(TCTypeSize(m_type), TCTypeAlign(m_type))
       IN IF align_u32_panics(tc_size, m_sa.align)
          THEN /\ tc_pc' = "panic"
               /\ UNCHANGED <<tc_members, tc_idx, tc_size, tc_align,
                              tc_typed_members, tc_sa>>
          ELSE /\ tc_size' = align_u32(tc_size, m_sa.align) + m_sa.size
               /\ tc_align' = Max(m_sa.align, tc_align)
               /\ tc_typed_members' =
                     Append(tc_typed_members,
                            [decl_type |-> m_type,
                             offset |-> MemberOffset(tc_size, m_sa)])
               /\ tc_idx' = tc_idx + 1
               /\ UNCHANGED <<tc_members, tc_sa, tc_pc>>

\* after the loop: the struct's SizeAlign
check_type_finish ==
    /\ tc_pc = "members"
    /\ tc_idx = Len(tc_members)
    /\ IF align_u32_panics(tc_size, tc_align)
       THEN /\ tc_pc' = "panic"
            /\ UNCHANGED tc_sa
       ELSE /\ tc_sa' = sa(align_u32(tc_size, tc_align), tc_align)
            /\ tc_pc' = "done"
    /\ UNCHANGED <<tc_members, tc_idx, tc_size, tc_align, tc_typed_members>>

(***************************************************************************)
(* Function declarations: src/type_checker.rs (check_file, the loop over   *)
(* FuncDecl and Func statements of one function name)                      *)
(***************************************************************************)
VARIABLES
    fn_stmts,           \* the statements: [sig, body], body TRUE for a definition
    fn_idx,             \* statements the loop has handled
    fn_func_types,      \* func_types.get(ident): NoneV or a TCFuncType
    fn_unchecked,       \* unchecked_functions.get(ident): NoneV or [ftype, func]
    fn_functions,       \* functions.get(ident) after the last loop: NoneV or a TCFunc
    fn_pc,              \* "loop", "done" or "error"
    fn_err              \* the error returned

fnvars == <<fn_stmts, fn_idx, fn_func_types, fn_unchecked, fn_functions, fn_pc, fn_err>>

MaxFnStmts == 3

NoneV == [none |-> TRUE]

\* signatures: return type, parameter types, varargs
FnSigs == [return_type : {"I32", "Char"}, params : {<< >>, <<"I32">>},
           varargs : BOOLEAN]

FnStmts == [sig : FnSigs, body : BOOLEAN]

FnInputs == UNION {[1..n -> FnStmts] : n \in 0..MaxFnStmts}

\* ast.rs, impl PartialEq for TCFuncType: return type and parameter types
FuncTypeEq(a, b) ==
    /\ a.return_type = b.return_type
    /\ Len(a.params) = Len(b.params)
    /\ \A i \in 1..Len(a.params) : a.params[i] = b.params[i]

FnInit(inputs) ==
    /\ fn_stmts \in inputs
    /\ fn_idx = 0
    /\ fn_func_types = NoneV
    /\ fn_unchecked = NoneV
    /\ fn_functions = NoneV
    /\ fn_pc = "loop"
    /\ fn_err = ""

FnFail(msg) ==
    /\ fn_pc' = "error"
    /\ fn_err' = msg
    /\ UNCHANGED <<fn_stmts, fn_idx, fn_func_types, fn_unchecked, fn_functions>>

\* check_file lines 1030-1120: one statement of the function loop
check_file_func ==
    /\ fn_pc = "loop"
    /\ fn_idx < Len(fn_stmts)
    /\ LET stmt == fn_stmts[fn_idx + 1]
           decl_idx == fn_idx
           tc_func_type == [decl_idx |-> decl_idx,
                            return_type |-> stmt.sig.return_type,
                            params |-> stmt.sig.params,
                            varargs |-> stmt.sig.varargs]
           unchecked == [ftype |-> tc_func_type,
                         func |-> IF stmt.body THEN [defn_idx |-> decl_idx] ELSE NoneV]
       IN IF fn_func_types # NoneV /\ ~FuncTypeEq(fn_func_types, tc_func_type)
          THEN FnFail("func_decl_mismatch")
          ELSE IF /\ fn_func_types # NoneV
                  /\ fn_unchecked # NoneV
                  /\ fn_unchecked.func # NoneV
                  /\ stmt.body
          THEN FnFail("func_redef")
          ELSE /\ fn_func_types' = IF fn_func_types # NoneV THEN fn_func_types
                                   ELSE tc_func_type
               /\ fn_unchecked' = unchecked
               /\ fn_idx' = fn_idx + 1
               /\ UNCHANGED <<fn_stmts, fn_functions, fn_pc, fn_err>>

\* check_file lines 1146-1158: the function table is built from unchecked_functions
check_file_functions ==
    /\ fn_pc = "loop"
    /\ fn_idx = Len(fn_stmts)
    /\ fn_functions' = IF fn_unchecked = NoneV THEN NoneV
                       ELSE [func_type |-> fn_unchecked.ftype,
                             defn |-> fn_unchecked.func]
    /\ fn_pc' = "done"
    /\ UNCHANGED <<fn_stmts, fn_idx, fn_func_types, fn_unchecked, fn_err>>

(***************************************************************************)
(* Struct declarations: src/type_checker.rs (check_file, the struct table  *)
(* of one struct name, and TypeEnv::check_struct_type)                     *)
(***************************************************************************)
VARIABLES
    st_stmts,           \* program.stmts: struct declarations, definitions, others
    st_idx,             \* statements the struct loop has handled
    st_unchecked,       \* unchecked_types.get(ident): NoneV or [decl_idx, defn]
    st_structs,         \* types.structs.get(ident): NoneV or [decl_idx, defn]
    st_use,             \* the last check_struct_type call and its result
    st_pc,              \* "loop", "types", "checked" or "error"
    st_err              \* the error returned

stvars == <<st_stmts, st_idx, st_unchecked, st_structs, st_use, st_pc, st_err>>

MaxStStmts == 4

\* a statement: a forward declaration, a definition with members, or a
\* statement that is no struct declaration
StStmts ==
    {[kind |-> "decl"], [kind |-> "other"]}
    \cup {[kind |-> "defn", members |-> m] :
             m \in {<<[kind |-> "I32", pointer_count |-> 0]>>,
                    <<[kind |-> "Char", pointer_count |-> 0],
                      [kind |-> "I32", pointer_count |-> 1]>>}}

StInputs == UNION {[1..n -> StStmts] : n \in 0..MaxStStmts}

\* ast.rs TC_UNKNOWN_SIZE, `!0` (all bits set)
TC_UNKNOWN_SIZE == -1

\* ast.rs TC_UNKNOWN_SA
TC_UNKNOWN_SA == [size |-> TC_UNKNOWN_SIZE, align |-> 0]

StInit(inputs) ==
    /\ st_stmts \in inputs
    /\ st_idx = 0
    /\ st_unchecked = NoneV
    /\ st_structs = NoneV
    /\ st_use = NoneV
    /\ st_pc = "loop"
    /\ st_err = ""

\* check_file lines 808-879: one statement of the struct loop
check_file_struct ==
    /\ st_pc = "loop"
    /\ st_idx < Len(st_stmts)
    /\ LET stmt == st_stmts[st_idx + 1]
           defn_idx == st_idx
           original == st_unchecked
           decl_idx == IF original # NoneV THEN original.decl_idx ELSE st_idx
       IN IF stmt.kind = "other"
          THEN /\ st_idx' = st_idx + 1
               /\ UNCHANGED <<st_stmts, st_unchecked, st_structs, st_use, st_pc, st_err>>
          ELSE IF original # NoneV /\ original.defn # NoneV /\ stmt.kind = "defn"
          THEN /\ st_pc' = "error"
               /\ st_err' = "redefinition of struct"
               /\ UNCHANGED <<st_stmts, st_idx, st_unchecked, st_structs, st_use>>
          ELSE /\ st_unchecked' =
                     [decl_idx |-> decl_idx,
                      defn |-> IF stmt.kind = "defn"
                               THEN [defn_idx |-> defn_idx, members |-> stmt.members]
                               ELSE NoneV]
               /\ st_idx' = st_idx + 1
               /\ UNCHANGED <<st_stmts, st_structs, st_use, st_pc, st_err>>

\* check_type lines 920-988 as a function of the members: the running size and
\* alignment after the members from index i on
RECURSIVE LayoutFrom(_, _, _, _)
LayoutFrom(members, i, size, align) ==
    IF i > Len(members)
    THEN sa(align_u32(size, align), align)
    ELSE LET m_sa == sa(TCTypeSize(members[i]), TCTypeAlign(members[i]))
         IN LayoutFrom(members, i + 1, align_u32(size, m_sa.align) + m_sa.size,
                       Max(m_sa.align, align))

\* check_file lines 1008-1018 with check_type lines 883-1005: the struct table
check_file_types ==
    /\ st_pc = "loop"
    /\ st_idx = Len(st_stmts)
    /\ st_structs' =
          IF st_unchecked = NoneV THEN NoneV
          ELSE [decl_idx |-> st_unchecked.decl_idx,
                defn |-> IF st_unchecked.defn = NoneV THEN NoneV
                         ELSE [defn_idx |-> st_unchecked.defn.defn_idx,
                               sa |-> LayoutFrom(st_unchecked.defn.members, 1, 0, 0)]]
    /\ st_pc' = "checked"
    /\ UNCHANGED <<st_stmts, st_idx, st_unchecked, st_use, st_err>>

\* mutant of check_struct_type: a definition later in the file is not rejected
check_struct_type_anydefn(struct_type, decl_idx, pointer_count) ==
    IF struct_type = NoneV
    THEN Err("referenced struct doesn't exist")
    ELSE IF struct_type.decl_idx > decl_idx
    THEN Err("used type declared later in file")
    ELSE IF struct_type.defn # NoneV
    THEN Ok(struct_type.defn.sa)
    ELSE IF pointer_count = 0
    THEN Err("referenced incomplete type without pointer indirection")
    ELSE Ok(TC_UNKNOWN_SA)

\* TypeEnv::check_struct_type, struct_type being self.structs.get(&struct_ident)
check_struct_type(struct_type, decl_idx, pointer_count) ==
    IF struct_type = NoneV
    THEN Err("referenced struct doesn't exist")
    ELSE IF struct_type.decl_idx > decl_idx
    THEN Err("used type declared later in file")
    ELSE IF struct_type.defn # NoneV
    THEN IF pointer_count = 0 /\ struct_type.defn.defn_idx > decl_idx
         THEN Err("used type defined later in file")
         ELSE Ok(struct_type.defn.sa)
    ELSE IF pointer_count = 0
    THEN Err("referenced incomplete type without pointer indirection")
    ELSE Ok(TC_UNKNOWN_SA)

\* TypeEnv::check_type lines 437-443: a use of the struct in the statement at
\* index decl_idx, by value or through pointers
check_struct_type_use ==
    /\ st_pc = "checked"
    /\ \E d \in 1..Len(st_stmts), pointer_count \in {0, 1, 2} :
          /\ st_stmts[d].kind = "other"
          /\ st_use' = [decl_idx |-> d - 1, pointer_count |-> pointer_count,
                        res |-> check_struct_type(st_structs, d - 1, pointer_count)]
    /\ UNCHANGED <<st_stmts, st_idx, st_unchecked, st_structs, st_pc, st_err>>

(***************************************************************************)
(* Lexer: quoted #include and the shared token map (lexer.rs, filedb.rs)   *)
(***************************************************************************)
VARIABLES
    lx_source,          \* the files on disk: for each file, its quoted #include texts in order
    lx_names,           \* FileDb.files / file_names: the path each file id was added under
    lx_token_db,        \* token_db: the file ids with a cached token slice
    lx_incomplete,      \* the `incomplete` set of the running lex_file call
    lx_stack,           \* the nested Lexer::lex_file calls: file id and includes handled so far
    lx_pc,              \* "idle", "run" or "done"
    lx_res,             \* result of the last lex_file call
    lx_root,            \* file id of the last lex_file call
    lx_calls,           \* lex_file calls made so far
    lx_completed        \* file ids whose Lexer::lex_file reached the end of the file

lxvars == <<lx_source, lx_names, lx_token_db, lx_incomplete, lx_stack, lx_pc, lx_res,
            lx_root, lx_calls, lx_completed>>

MaxIncludes == 2
MaxPathDots == 2
MaxLexCalls == 2

\* the files of one directory
LexFiles == {"a.h", "b.h"}

\* a path of that directory: the directory, `dots` times "./", then the file name
LexPath(dots, base) == [dots |-> dots, base |-> base]

\* the text between the quotes of an #include: "b.h" or "./b.h"
IncludeTexts == {LexPath(d, b) : d \in {0, 1}, b \in LexFiles}

LexSources == [LexFiles -> SeqsUpTo(IncludeTexts, MaxIncludes)]

LxInit(sources) ==
    /\ lx_source \in sources
    /\ lx_names = << >>
    /\ lx_token_db = {}
    /\ lx_incomplete = {}
    /\ lx_stack = << >>
    /\ lx_pc = "idle"
    /\ lx_res = ""
    /\ lx_root = 0
    /\ lx_calls = 0
    /\ lx_completed = {}

\* file_names.get(path)
FileNamesGet(names, path) == {id \in 1..Len(names) : names[id] = path}

\* filedb.rs 433-461: the canonical path is looked up, and added when absent
add_from_fs(names, base) ==
    LET path == LexPath(0, base)
        found == FileNamesGet(names, path)
    IN  IF found # {}
        THEN [ok |-> TRUE, id |-> CHOOSE id \in found : TRUE, names |-> names]
        ELSE [ok |-> TRUE, id |-> Len(names) + 1, names |-> Append(names, path)]

\* filedb.rs 596-607: the path up to and including its last separator
parent_if_file(path) == path.dots

\* filedb.rs 400-416: the include text is joined to the referrer's directory as
\* written and looked up under that spelling; an unknown spelling is read from
\* disk and added under a new id.  read_to_string fails once the path exceeds
\* the length the system accepts.
add_from_include(names, include, file) ==
    LET path == LexPath(parent_if_file(names[file]) + include.dots, include.base)
        found == FileNamesGet(names, path)
    IN  IF found # {}
        THEN [ok |-> TRUE, id |-> CHOOSE id \in found : TRUE, names |-> names]
        ELSE IF path.dots > MaxPathDots
        THEN [ok |-> FALSE, id |-> 0, names |-> names]
        ELSE [ok |-> TRUE, id |-> Len(names) + 1, names |-> Append(names, path)]

\* the quoted includes of the file with this id
LexIncludes(id) == lx_source[lx_names[id].base]

\* an error returned with `?` through every nested call; nothing is inserted
LexFail(msg, names) ==
    /\ lx_names' = names
    /\ lx_stack' = << >>
    /\ lx_pc' = "done"
    /\ lx_res' = msg
    /\ UNCHANGED <<lx_source, lx_token_db, lx_incomplete, lx_root, lx_calls, lx_completed>>

\* lexer.rs 204-218: lex_file up to the call of Lexer::lex_file.  main.rs stops
\* at the first error, so a further call follows only a successful one.
lex_file ==
    /\ lx_pc = "idle" \/ (lx_pc = "done" /\ lx_res = "ok")
    /\ lx_calls < MaxLexCalls
    /\ \E base \in LexFiles :
          LET r == add_from_fs(lx_names, base)
          IN  /\ lx_names' = r.names
              /\ lx_root' = r.id
              /\ lx_calls' = lx_calls + 1
              /\ IF r.id \in lx_token_db
                 THEN /\ lx_pc' = "done"
                      /\ lx_res' = "ok"
                      /\ UNCHANGED <<lx_incomplete, lx_stack>>
                 ELSE /\ lx_pc' = "run"
                      /\ lx_res' = ""
                      /\ lx_incomplete' = {}
                      /\ lx_stack' = <<[file |-> r.id, pos |-> 0]>>
    /\ UNCHANGED <<lx_source, lx_token_db, lx_completed>>

\* lexer.rs 452-505: the next quoted #include of the file being lexed
lex_macro_include ==
    /\ lx_pc = "run"
    /\ LET top == lx_stack[Len(lx_stack)]
           includes == LexIncludes(top.file)
       IN  /\ top.pos < Len(includes)
           /\ LET r == add_from_include(lx_names, includes[top.pos + 1], top.file)
              IN  IF ~r.ok
                  THEN LexFail("error finding file", r.names)
                  ELSE IF r.id \in lx_incomplete
                  THEN LexFail("include cycle detected", r.names)
                  ELSE IF r.id \in lx_token_db
                  THEN /\ lx_names' = r.names
                       /\ lx_stack' = [lx_stack EXCEPT ![Len(lx_stack)].pos = @ + 1]
                       /\ UNCHANGED <<lx_source, lx_token_db, lx_incomplete, lx_pc, lx_res,
                                      lx_root, lx_calls, lx_completed>>
                  ELSE /\ lx_names' = r.names
                       /\ lx_incomplete' = lx_incomplete \cup {r.id}
                       /\ lx_stack' = Append(lx_stack, [file |-> r.id, pos |-> 0])
                       /\ UNCHANGED <<lx_source, lx_token_db, lx_pc, lx_res, lx_root,
                                      lx_calls, lx_completed>>

\* lexer.rs 252: Lexer::lex_file reaches the end of the file, and its caller
\* stores the tokens: lines 503-505 for an included file, 216-217 for the root
lex_file_end ==
    /\ lx_pc = "run"
    /\ LET top == lx_stack[Len(lx_stack)]
       IN  /\ top.pos = Len(LexIncludes(top.file))
           /\ lx_completed' = lx_completed \cup {top.file}
           /\ lx_token_db' = lx_token_db \cup {top.file}
           /\ IF Len(lx_stack) = 1
              THEN /\ lx_stack' = << >>
                   /\ lx_pc' = "done"
                   /\ lx_res' = "ok"
                   /\ UNCHANGED lx_incomplete
              ELSE /\ lx_incomplete' = lx_incomplete \ {top.file}
                   /\ lx_stack' = [SubSeq(lx_stack, 1, Len(lx_stack) - 1)
                                      EXCEPT ![Len(lx_stack) - 1].pos = @ + 1]
                   /\ UNCHANGED <<lx_pc, lx_res>>
    /\ UNCHANGED <<lx_source, lx_names, lx_root, lx_calls>>

(***************************************************************************)
(* Symbol table of the file store (filedb.rs, FileDb)                      *)
(***************************************************************************)
VARIABLES
    sym_files,          \* FileDb.files: the source text of each file; file 0 holds the built-in names
    sym_names,          \* FileDb.names: the location interned under each symbol id
    sym_translate,      \* FileDb.translate: text -> symbol id
    sym_ev              \* the last call, its result and the names before it

symvars == <<sym_files, sym_names, sym_translate, sym_ev>>

MaxSyms == 2

\* INIT_SYMS.names, the first of them
INIT_SYMS ==
    << <<"m", "a", "i", "n">>,
       <<"v", "a", "_", "l", "i", "s", "t">>,
       <<"p", "r", "i", "n", "t", "f">>,
       <<"e", "x", "i", "t">> >>

RECURSIVE Concat(_)
Concat(seqs) == IF seqs = << >> THEN << >> ELSE Head(seqs) \o Concat(Tail(seqs))

\* util.rs: l(start, end, file)
CodeLoc(start, end, file) == [start |-> start, end |-> end, file |-> file]

\* filedb.rs 467-471, cloc_to_str: the bytes of the location's file in its range
cloc_to_str(files, cloc) == SubSeq(files[cloc.file + 1], cloc.start + 1, cloc.end)

\* filedb.rs 462-465
symbol_to_str(files, names, symbol) == cloc_to_str(files, names[symbol + 1])

\* mutant of translate_add_cloc: a new id is issued without looking the text up
translate_add_cloc_always(files, names, translate, cloc) ==
    LET text == cloc_to_str(files, cloc)
    IN  [id |-> Len(names), names |-> Append(names, cloc),
         translate |-> (text :> Len(names)) @@ translate]

\* filedb.rs 479-494
translate_add_cloc(files, names, translate, cloc) ==
    LET text == cloc_to_str(files, cloc)
    IN  IF text \in DOMAIN translate
        THEN [id |-> translate[text], names |-> names, translate |-> translate]
        ELSE [id |-> Len(names), names |-> Append(names, cloc),
              translate |-> (text :> Len(names)) @@ translate]

\* filedb.rs 328-361, with_capacity: file 0 is the concatenation of the
\* built-in names, each of which is interned in order
RECURSIVE InitSymbols(_, _, _, _)
InitSymbols(files, k, begin, st) ==
    IF k > Len(INIT_SYMS) THEN st
    ELSE LET end == begin + Len(INIT_SYMS[k])
             r == translate_add_cloc(files, st.names, st.translate, CodeLoc(begin, end, 0))
         IN  InitSymbols(files, k + 1, end, r)

\* the sources of the files added after construction
SymSources ==
    { << <<"m", "a", "i", "n", "a">>, <<"a", "i">> >>,
      << <<"e", "x", "i", "t">>, <<"x", "x">> >> }

SymInit(sources) ==
    /\ \E src \in sources : sym_files = <<Concat(INIT_SYMS)>> \o src
    /\ LET st == InitSymbols(<<Concat(INIT_SYMS)>>, 1, 0,
                             [id |-> 0, names |-> << >>, translate |-> << >>])
       IN  /\ sym_names = st.names
           /\ sym_translate = st.translate
    /\ sym_ev = [kind |-> "new"]

\* filedb.rs 473-477: translate_add(range, file) for a non-empty range of a file
translate_add ==
    /\ \E file \in 1..Len(sym_files) - 1 :
       \E start \in 0..Len(sym_files[file + 1]) - 1 :
       \E end \in start + 1..Len(sym_files[file + 1]) :
          LET cloc == CodeLoc(start, end, file)
              r == translate_add_cloc(sym_files, sym_names, sym_translate, cloc)
          IN  /\ Len(r.names) <= Len(INIT_SYMS) + MaxSyms
              /\ sym_names' = r.names
              /\ sym_translate' = r.translate
              /\ sym_ev' = [kind |-> "translate_add", cloc |-> cloc, id |-> r.id,
                            before |-> sym_names]
    /\ UNCHANGED sym_files

(***************************************************************************)
(* Lexer: the cursor over a file's bytes (lexer.rs, Lexer)                 *)
(***************************************************************************)
VARIABLES
    lb_data,            \* the bytes of the file
    lb_current,         \* Lexer.current
    lb_output,          \* Lexer.output: the kinds of the tokens pushed
    lb_pc,              \* "start", "loop" or "done"
    lb_res              \* "", "ok", "error", or "panic" for an index out of range

lbvars == <<lb_data, lb_current, lb_output, lb_pc, lb_res>>

MaxChunks == 4

WHITESPACE == {" ", "\t"}

CRLF == <<"\r", "\n">>

\* the pieces a file is put together from
LexChunks ==
    { <<"#", "d", "e", "f", "i", "n", "e">>, <<"#", "p", "r", "a", "g", "m", "a">>,
      <<" ">>, <<"\n">>, <<"a">>, <<"/", "/">>, <<"/", "*">>, <<"*", "/">> }

LexDatas == {Concat(cs) : cs \in SeqsUpTo(LexChunks, MaxChunks)}

\* lexer.rs 971-976
is_ident_char(b) == b \in {"a", "d", "e", "f", "g", "i", "m", "n", "p", "r", "_"}

\* lexer.rs 840-915: the peek functions, false at and past the end of the data
peek_check(data, cur) == cur < Len(data) /\ is_ident_char(data[cur + 1])

peek_eq(data, cur, b) == cur < Len(data) /\ data[cur + 1] = b

peek_neq(data, cur, b) == cur < Len(data) /\ data[cur + 1] # b

peek_eqs(data, cur, bs) == cur < Len(data) /\ data[cur + 1] \in bs

peek_neqs(data, cur, bs) == cur < Len(data) /\ data[cur + 1] \notin bs

peek_eq_series(data, cur, bs) ==
    cur + Len(bs) <= Len(data) /\ SubSeq(data, cur + 1, cur + Len(bs)) = bs

peek_neq_series(data, cur, bs) ==
    cur + Len(bs) <= Len(data) /\ SubSeq(data, cur + 1, cur + Len(bs)) # bs

\* while self.peek_eqs(data, &WHITESPACE) { self.current += 1 }
RECURSIVE SkipWhitespace(_, _)
SkipWhitespace(data, cur) ==
    IF peek_eqs(data, cur, WHITESPACE) THEN SkipWhitespace(data, cur + 1) ELSE cur

\* while self.peek_neqs(data, &WHITESPACE) { self.current += 1 }
RECURSIVE SkipDirective(_, _)
SkipDirective(data, cur) ==
    IF peek_neqs(data, cur, WHITESPACE) THEN SkipDirective(data, cur + 1) ELSE cur

\* while self.peek_check(data, is_ident_char) { self.current += 1 }
RECURSIVE SkipIdent(_, _)
SkipIdent(data, cur) ==
    IF peek_check(data, cur) THEN SkipIdent(data, cur + 1) ELSE cur

\* while self.peek_neq(data, b'\n') && self.peek_neq_series(data, &CRLF) { self.current += 1 }
RECURSIVE SkipLine(_, _)
SkipLine(data, cur) ==
    IF peek_neq(data, cur, "\n") /\ peek_neq_series(data, cur, CRLF)
    THEN SkipLine(data, cur + 1) ELSE cur

\* while self.peek_neq_series(data, &[b'*', b'/']) { self.current += 1 }
RECURSIVE SkipBlock(_, _)
SkipBlock(data, cur) ==
    IF peek_neq_series(data, cur, <<"*", "/">>) THEN SkipBlock(data, cur + 1) ELSE cur

LexRes(cur, out, res) == [cur |-> cur, out |-> out, res |-> res]

\* lexer.rs 586-601 and the arms of the match for the bytes of LexChunks:
\* data[begin] is read without a test of begin against the length
lex_token(data, cur, out) ==
    LET begin == cur IN
    IF begin >= Len(data) THEN LexRes(begin + 1, out, "panic")
    ELSE IF is_ident_char(data[begin + 1])
    THEN LexRes(SkipIdent(data, begin + 1), Append(out, "Ident"), "ok")
    ELSE IF data[begin + 1] = "/"
    THEN LexRes(begin + 1, Append(out, "Slash"), "ok")
    ELSE IF data[begin + 1] = "*"
    THEN LexRes(begin + 1, Append(out, "Star"), "ok")
    ELSE LexRes(begin + 1, out, "error")

\* lexer.rs 371-408 and 417-421: the loop over the body of a #define
RECURSIVE DefineBody(_, _, _)
DefineBody(data, cur0, out) ==
    LET cur1 == SkipWhitespace(data, cur0) IN
    IF cur1 = Len(data) THEN LexRes(cur1, out, "ok")
    ELSE IF peek_eq_series(data, cur1, <<"/", "*">>)
    THEN DefineBody(data, SkipBlock(data, cur1 + 2) + 2, out)
    ELSE LET cur2 == IF peek_eq_series(data, cur1, <<"/", "/">>)
                     THEN SkipLine(data, cur1 + 2) ELSE cur1
         IN  IF peek_eq(data, cur2, "\n") \/ peek_eq_series(data, cur2, CRLF)
             THEN LexRes(cur2, out, "ok")
             ELSE IF peek_eq_series(data, cur2, <<"\\", "\n">>)
             THEN DefineBody(data, cur2 + 2, out)
             ELSE LET t == lex_token(data, cur2, out)
                  IN  IF t.res # "ok" THEN t ELSE DefineBody(data, t.cur, t.out)

\* lexer.rs 303-451 and 576-582: lex_macro for #pragma, #define and unknown
\* directives
lex_macro(data, cur0, out) ==
    IF ~peek_eq(data, cur0, "#") THEN LexRes(cur0, out, "ok")
    ELSE LET begin == cur0 + 1
             cur1 == SkipDirective(data, begin)
             directive == SubSeq(data, begin + 1, cur1)
         IN  CASE directive = <<"p", "r", "a", "g", "m", "a">> ->
                    LET begin2 == cur1 + 1
                        cur2 == SkipLine(data, begin2)
                    IN  IF begin2 > Len(data)
                        THEN LexRes(cur2, out, "panic")
                        ELSE LexRes(cur2, Append(out, "Pragma"), "ok")
               [] directive = <<"d", "e", "f", "i", "n", "e">> ->
                    LET ident_begin == SkipWhitespace(data, cur1)
                        cur2 == SkipIdent(data, ident_begin)
                    IN  IF ident_begin = Len(data) \/ cur2 = ident_begin
                        THEN LexRes(cur2, out, "error")
                        ELSE LET b == DefineBody(data, cur2, Append(out, "MacroDef"))
                             IN  IF b.res # "ok" THEN b
                                 ELSE LexRes(b.cur, Append(b.out, "MacroDefEnd"), "ok")
               [] OTHER -> LexRes(cur1, out, "error")

\* lexer.rs 263-292: the loop of lex_macro_or_token over whitespace, comments
\* and line ends, with lex_macro after every line end
RECURSIVE SkipToToken(_, _, _)
SkipToToken(data, cur0, out) ==
    LET cur1 == SkipWhitespace(data, cur0) IN
    IF peek_eq_series(data, cur1, <<"/", "*">>)
    THEN SkipToToken(data, SkipBlock(data, cur1 + 2) + 2, out)
    ELSE LET cur2 == IF peek_eq_series(data, cur1, <<"/", "/">>)
                     THEN SkipLine(data, cur1 + 2) ELSE cur1
         IN  IF peek_eq(data, cur2, "\n")
             THEN LET m == lex_macro(data, cur2 + 1, out)
                  IN  IF m.res # "ok" THEN m ELSE SkipToToken(data, m.cur, m.out)
             ELSE IF peek_eq_series(data, cur2, CRLF)
             THEN LET m == lex_macro(data, cur2 + 2, out)
                  IN  IF m.res # "ok" THEN m ELSE SkipToToken(data, m.cur, m.out)
             ELSE LexRes(cur2, out, "ok")

LbInit(datas) ==
    /\ lb_data \in datas
    /\ lb_current = 0
    /\ lb_output = << >>
    /\ lb_pc = "start"
    /\ lb_res = ""

LbFinish(r) ==
    /\ lb_current' = r.cur
    /\ lb_output' = r.out
    /\ lb_pc' = "done"
    /\ lb_res' = r.res
    /\ UNCHANGED lb_data

\* lexer.rs 242-244: Lexer::lex_file, the lex_macro call at the start of the file
lex_file_begin ==
    /\ lb_pc = "start"
    /\ LET m == lex_macro(lb_data, lb_current, lb_output)
       IN  IF m.res # "ok" THEN LbFinish(m)
           ELSE /\ lb_current' = m.cur
                /\ lb_output' = m.out
                /\ lb_pc' = "loop"
                /\ UNCHANGED <<lb_data, lb_res>>

\* lexer.rs 246-252 and 255-301: one call of lex_macro_or_token from the loop
\* of Lexer::lex_file
lex_macro_or_token ==
    /\ lb_pc = "loop"
    /\ LET s == SkipToToken(lb_data, lb_current, lb_output)
       IN  IF s.res # "ok" THEN LbFinish(s)
           ELSE IF s.cur = Len(lb_data) THEN LbFinish(s)
           ELSE LET t == lex_token(lb_data, s.cur, s.out)
                IN  IF t.res # "ok" THEN LbFinish(t)
                    ELSE /\ lb_current' = t.cur
                         /\ lb_output' = t.out
                         /\ UNCHANGED <<lb_data, lb_pc, lb_res>>

(***************************************************************************)
(* Specifications                                                          *)
(***************************************************************************)
\* no file on disk and no lex_file call
LxIdle == LxInit({[f \in LexFiles |-> << >>]})

\* the symbol table as constructed, with no file added
SymIdle == SymInit({<< >>})

\* the lexer before it is given a file
LbIdle == LbInit({<< >>})

vars == <<kvars, ppvars, fdbvars, tcvars, fnvars, stvars, lxvars, symvars, lbvars>>

\* Scheduling: up to MaxProcs processes, every budget, the requests that exit,
\* open a descriptor or fail
Init == KernelNew /\ PPInit({<< >>}) /\ FdbInit /\ TcInit({<< >>}) /\ FnInit({<< >>}) /\ StInit({<< >>}) /\ LxIdle /\ SymIdle /\ LbIdle

Next ==
    \/ load_program(MaxProcs) /\ UNCHANGED <<ppvars, fdbvars, tcvars, fnvars, stvars, lxvars, symvars, lbvars>>
    \/ events /\ UNCHANGED <<ppvars, fdbvars, tcvars, fnvars, stvars, lxvars, symvars, lbvars>>
    \/ run_op_count_call(Budgets) /\ UNCHANGED <<ppvars, fdbvars, tcvars, fnvars, stvars, lxvars, symvars, lbvars>>
    \/ run_op_count_return /\ UNCHANGED <<ppvars, fdbvars, tcvars, fnvars, stvars, lxvars, symvars, lbvars>>
    \/ run_op_count_skip /\ UNCHANGED <<ppvars, fdbvars, tcvars, fnvars, stvars, lxvars, symvars, lbvars>>
    \/ run_op_count_step(SchedRequests) /\ UNCHANGED <<ppvars, fdbvars, tcvars, fnvars, stvars, lxvars, symvars, lbvars>>

Spec == Init /\ [][Next]_vars

\* Terminal and file I/O: every request, the host typing into the stdin buffer
\* and collecting the output
NextTerm ==
    \/ load_program(MaxTermProcs) /\ UNCHANGED <<ppvars, fdbvars, tcvars, fnvars, stvars, lxvars, symvars, lbvars>>
    \/ host_input /\ UNCHANGED <<ppvars, fdbvars, tcvars, fnvars, stvars, lxvars, symvars, lbvars>>
    \/ events /\ UNCHANGED <<ppvars, fdbvars, tcvars, fnvars, stvars, lxvars, symvars, lbvars>>
    \/ term_out /\ UNCHANGED <<ppvars, fdbvars, tcvars, fnvars, stvars, lxvars, symvars, lbvars>>
    \/ run_op_count_call(TermBudgets) /\ UNCHANGED <<ppvars, fdbvars, tcvars, fnvars, stvars, lxvars, symvars, lbvars>>
    \/ run_op_count_return /\ UNCHANGED <<ppvars, fdbvars, tcvars, fnvars, stvars, lxvars, symvars, lbvars>>
    \/ run_op_count_skip /\ UNCHANGED <<ppvars, fdbvars, tcvars, fnvars, stvars, lxvars, symvars, lbvars>>
    \/ run_op_count_step(EcallRequests) /\ UNCHANGED <<ppvars, fdbvars, tcvars, fnvars, stvars, lxvars, symvars, lbvars>>

SpecTerm == Init /\ [][NextTerm]_vars

\* Terminal output: programs whose ecalls exit, open descriptors and write,
\* the host draining the output list between quanta
WriteRequests == {req \in EcallRequests : req.op \in {"Exit", "OpenFd", "WriteFd", "AppendFd"}}

NextWrite ==
    \/ load_program(MaxTermProcs) /\ UNCHANGED <<ppvars, fdbvars, tcvars, fnvars, stvars, lxvars, symvars, lbvars>>
    \/ events /\ UNCHANGED <<ppvars, fdbvars, tcvars, fnvars, stvars, lxvars, symvars, lbvars>>
    \/ term_out /\ UNCHANGED <<ppvars, fdbvars, tcvars, fnvars, stvars, lxvars, symvars, lbvars>>
    \/ run_op_count_call(TermBudgets) /\ UNCHANGED <<ppvars, fdbvars, tcvars, fnvars, stvars, lxvars, symvars, lbvars>>
    \/ run_op_count_return /\ UNCHANGED <<ppvars, fdbvars, tcvars, fnvars, stvars, lxvars, symvars, lbvars>>
    \/ run_op_count_skip /\ UNCHANGED <<ppvars, fdbvars, tcvars, fnvars, stvars, lxvars, symvars, lbvars>>
    \/ run_op_count_step(WriteRequests) /\ UNCHANGED <<ppvars, fdbvars, tcvars, fnvars, stvars, lxvars, symvars, lbvars>>

SpecWrite == Init /\ [][NextWrite]_vars

\* preprocess_file on every input of PPInputs
InitPP == KernelNew /\ PPInit(PPInputs) /\ FdbInit /\ TcInit({<< >>}) /\ FnInit({<< >>}) /\ StInit({<< >>}) /\ LxIdle /\ SymIdle /\ LbIdle

NextPP ==
    \/ pp_scan /\ UNCHANGED <<pp_items, kvars, fdbvars, tcvars, fnvars, stvars, lxvars, symvars, lbvars>>
    \/ pp_arg_loop /\ UNCHANGED <<pp_items, kvars, fdbvars, tcvars, fnvars, stvars, lxvars, symvars, lbvars>>

SpecPP == InitPP /\ [][NextPP]_vars

\* preprocess_file on every item list of PPItemInputs
InitPPItems ==
    /\ KernelNew /\ FdbInit /\ TcInit({<< >>}) /\ FnInit({<< >>}) /\ StInit({<< >>}) /\ LxIdle /\ SymIdle /\ LbIdle
    /\ PPInitItems(PPItemInputs)

SpecPPItems == InitPPItems /\ [][NextPP]_vars

\* the slim file store under add, remove_str and remove_id
NextFdb ==
    \/ fdb_add /\ UNCHANGED <<kvars, ppvars, tcvars, fnvars, stvars, lxvars, symvars, lbvars>>
    \/ fdb_remove_str /\ UNCHANGED <<kvars, ppvars, tcvars, fnvars, stvars, lxvars, symvars, lbvars>>
    \/ fdb_remove_id /\ UNCHANGED <<kvars, ppvars, tcvars, fnvars, stvars, lxvars, symvars, lbvars>>

SpecFdb == Init /\ [][NextFdb]_vars

\* check_type on every struct definition of TcInputs
InitTc == KernelNew /\ PPInit({<< >>}) /\ FdbInit /\ TcInit(TcInputs) /\ FnInit({<< >>}) /\ StInit({<< >>}) /\ LxIdle /\ SymIdle /\ LbIdle

NextTc ==
    \/ check_type_member /\ UNCHANGED <<kvars, ppvars, fdbvars, fnvars, stvars, lxvars, symvars, lbvars>>
    \/ check_type_finish /\ UNCHANGED <<kvars, ppvars, fdbvars, fnvars, stvars, lxvars, symvars, lbvars>>

SpecTc == InitTc /\ [][NextTc]_vars

\* the function loop of check_file on every statement list of FnInputs
InitFn == KernelNew /\ PPInit({<< >>}) /\ FdbInit /\ TcInit({<< >>}) /\ FnInit(FnInputs) /\ StInit({<< >>}) /\ LxIdle /\ SymIdle /\ LbIdle

NextFn ==
    \/ check_file_func /\ UNCHANGED <<kvars, ppvars, fdbvars, tcvars, stvars, lxvars, symvars, lbvars>>
    \/ check_file_functions /\ UNCHANGED <<kvars, ppvars, fdbvars, tcvars, stvars, lxvars, symvars, lbvars>>

SpecFn == InitFn /\ [][NextFn]_vars

\* the struct table of check_file on every statement list of StInputs, and the
\* uses of the struct in the other statements
InitSt ==
    /\ KernelNew /\ PPInit({<< >>}) /\ FdbInit /\ TcInit({<< >>}) /\ FnInit({<< >>})
    /\ StInit(StInputs) /\ LxIdle /\ SymIdle /\ LbIdle

NextSt ==
    \/ check_file_struct /\ UNCHANGED <<kvars, ppvars, fdbvars, tcvars, fnvars, lxvars, symvars, lbvars>>
    \/ check_file_types /\ UNCHANGED <<kvars, ppvars, fdbvars, tcvars, fnvars, lxvars, symvars, lbvars>>
    \/ check_struct_type_use /\ UNCHANGED <<kvars, ppvars, fdbvars, tcvars, fnvars, lxvars, symvars, lbvars>>

SpecSt == InitSt /\ [][NextSt]_vars

\* lex_file on every assignment of include lists to the files of LexFiles
InitLx ==
    /\ KernelNew /\ PPInit({<< >>}) /\ FdbInit /\ TcInit({<< >>}) /\ FnInit({<< >>})
    /\ StInit({<< >>})
    /\ LxInit(LexSources) /\ SymIdle /\ LbIdle

NextLx ==
    \/ lex_file /\ UNCHANGED <<kvars, ppvars, fdbvars, tcvars, fnvars, stvars, symvars, lbvars>>
    \/ lex_macro_include /\ UNCHANGED <<kvars, ppvars, fdbvars, tcvars, fnvars, stvars, symvars, lbvars>>
    \/ lex_file_end /\ UNCHANGED <<kvars, ppvars, fdbvars, tcvars, fnvars, stvars, symvars, lbvars>>

SpecLx == InitLx /\ [][NextLx]_vars

\* translate_add on every non-empty range of the files of SymSources
InitSym ==
    /\ KernelNew /\ PPInit({<< >>}) /\ FdbInit /\ TcInit({<< >>}) /\ FnInit({<< >>})
    /\ StInit({<< >>}) /\ LxIdle
    /\ SymInit(SymSources) /\ LbIdle

NextSym ==
    \/ translate_add /\ UNCHANGED <<kvars, ppvars, fdbvars, tcvars, fnvars, stvars, lxvars, lbvars>>

SpecSym == InitSym /\ [][NextSym]_vars

\* Lexer::lex_file on every file of LexDatas
InitLb ==
    /\ KernelNew /\ PPInit({<< >>}) /\ FdbInit /\ TcInit({<< >>}) /\ FnInit({<< >>})
    /\ StInit({<< >>}) /\ LxIdle /\ SymIdle
    /\ LbInit(LexDatas)

NextLb ==
    \/ lex_file_begin /\ UNCHANGED <<kvars, ppvars, fdbvars, tcvars, fnvars, stvars, lxvars, symvars>>
    \/ lex_macro_or_token /\ UNCHANGED <<kvars, ppvars, fdbvars, tcvars, fnvars, stvars, lxvars, symvars>>

SpecLb == InitLb /\ [][NextLb]_vars

(***************************************************************************)
(* Claims about the kernel                                                 *)
(***************************************************************************)
AllExited == \A i \in 1..Len(processes) : processes[i].status.tag = "Exited"

\* C1: a call run_op_count(budget) with budget > 0 returns after finitely many
\* scheduler iterations. An iteration on an exited process changes nothing but
\* the cursor and the op counter, so the loop ends iff it is never entered (or
\* continued) with every process Exited: whenever the loop condition holds
\* inside run_op_count, some process is not Exited.
C1_RunOpCountReturns ==
    (k_pc = "run" /\ LoopCond) => ~AllExited

\* C3: once a process has exited, its status Exited(code) is kept by every
\* later kernel operation.
C3_ExitIsTerminal ==
    [][\A i \in 1..Len(processes) :
          processes[i].status.tag = "Exited"
              => processes'[i].status = processes[i].status]_vars

ReadsTermIn(ev) ==
    /\ ev.kind = "step"
    /\ ev.res \in {"ecall", "panic"}
    /\ ev.req.op = "ReadFd"
    /\ ev.req.fd + 1 <= Len(processes[ev.proc + 1].fds)
    /\ processes[ev.proc + 1].fds[ev.req.fd + 1] = TermIn

\* C6: a ReadFd of len bytes on a TermIn descriptor delivers the next
\* min(len, unread) unread bytes of the stdin buffer, pushes that count, and
\* leaves in_begin within the buffer.
C6_TermInReadsInSequence ==
    [][ReadsTermIn(k_ev') =>
          LET unread == Len(input) - in_begin
              n == Min(k_ev'.req.len, unread)
          IN /\ k_ev'.res = "ecall"
             /\ k_ev'.pushed = PushVal(n)
             /\ k_ev'.wrote = SubSeq(input, in_begin + 1, in_begin + n)
             /\ in_begin' <= Len(input')]_vars

RunnableSet == {i \in 1..Len(processes) : processes[i].status.tag = "Running"}

C8_ExitedNeverStepped ==
    [][(k_pc = "run" /\ LoopCond /\ CurrentExists
          /\ processes[current_proc + 1].status.tag = "Exited")
         => /\ k_ev'.kind = "skip"
            /\ current_proc_op_count' = 0
            /\ current_proc' = (current_proc + 1) % Len(processes)
            /\ UNCHANGED <<processes, in_begin, input, output, term_proc,
                           active_count, k_pc, count>>]_vars

C8_Witness ==
    /\ k_ev.kind = "skip"
    /\ processes[k_ev.proc + 1].status = Exited(0)

\* C9: when the interpreter step of the current process, or the dispatch of its
\* ecall, yields an error, exactly that process becomes Exited(1), active_count
\* drops by exactly 1, the error is returned, and no other process changes.
C9_ErrorMarksExited ==
    [][(k_ev'.kind = "step" /\ k_ev'.res \in {"error", "ecall_error"})
         => /\ k_ev'.proc = current_proc
            /\ processes'[current_proc + 1].status = Exited(1)
            /\ active_count' = active_count - 1
            /\ k_pc' = "idle"
            /\ "err" \in DOMAIN k_ev'.val
            /\ Len(processes') = Len(processes)
            /\ \A i \in 1..Len(processes) :
                  i # current_proc + 1 => processes'[i] = processes[i]]_vars

C9_Witness ==
    /\ k_ev.kind = "step"
    /\ k_ev.res = "ecall_error"
    /\ Len(processes) = 2

\* C10: load_program marks the previous terminal process Exited(1), appends a
\* Running process that becomes term_proc, returns its index, and changes the
\* status and the file descriptors of no other process.
C10_LoadProgramFrame ==
    [][k_ev'.kind = "load_program"
         => /\ Len(processes') = Len(processes) + 1
            /\ processes'[Len(processes')].status = Running
            /\ term_proc' = Len(processes)
            /\ k_ev'.val = term_proc'
            /\ term_proc # NO_PROC => processes'[term_proc + 1].status = Exited(1)
            /\ \A i \in 1..Len(processes) :
                  /\ processes'[i].fds = processes[i].fds
                  /\ i # term_proc + 1 => processes'[i].status = processes[i].status]_vars

C10_Witness ==
    /\ k_ev.kind = "load_program"
    /\ Len(processes) = 3
    /\ processes[2].status = Exited(1)
    /\ Len(processes[1].fds) = 5
    /\ processes[3].status = Running


(***************************************************************************)
(* Claims about the preprocessor                                           *)
(***************************************************************************)
\* index of the ')' that closes the parenthesis opened before index i, Len + 1 if none
RECURSIVE MatchClose(_, _, _)
MatchClose(toks, i, depth) ==
    IF i > Len(toks)
    THEN i
    ELSE IF toks[i] = RParen /\ depth = 0
         THEN i
         ELSE MatchClose(toks, i + 1,
                         CASE toks[i] = LParen -> depth + 1
                           [] toks[i] = RParen -> depth - 1
                           [] OTHER -> depth)

ArgTokensOf(toks, lparen) ==
    SubSeq(toks, lparen + 1, MatchClose(toks, lparen + 1, 0) - 1)

\* the arguments: the tokens split at every comma at parenthesis depth 0
RECURSIVE SplitArgs(_, _, _)
SplitArgs(ts, depth, cur) ==
    IF ts = << >>
    THEN <<cur>>
    ELSE IF Head(ts) = Comma /\ depth = 0
         THEN <<cur>> \o SplitArgs(Tail(ts), 0, << >>)
         ELSE SplitArgs(Tail(ts),
                        CASE Head(ts) = LParen -> depth + 1
                          [] Head(ts) = RParen -> depth - 1
                          [] OTHER -> depth,
                        Append(cur, Head(ts)))

\* the replacement list with the i-th parameter replaced by the i-th argument
RECURSIVE Substituted(_, _, _)
Substituted(toks, params, args) ==
    IF toks = << >>
    THEN << >>
    ELSE LET t == Head(toks)
             hits == {i \in 1..Len(params) : t.k = "Ident" /\ params[i] = t.id}
         IN (IF hits = {} THEN <<t>> ELSE args[CHOOSE i \in hits : TRUE])
            \o Substituted(Tail(toks), params, args)

\* C4: the tokens between the '(' of an invocation and its matching ')' are split
\* into arguments at each comma at parenthesis depth 0, the i-th argument is bound
\* to the i-th parameter, and the replacement list is emitted with every parameter
\* replaced by its argument.
C4_MacroArguments ==
    LET expected == SplitArgs(ArgTokensOf(pp_tokens, pp_call.lparen), 0, << >>)
        closed == MatchClose(pp_tokens, pp_call.lparen + 1, 0) <= Len(pp_tokens)
    IN
    /\ (pp_pc = "args" /\ closed) => IsPrefix(pp_actual_params, expected)
    /\ (pp_call.done /\ pp_pc # "error" /\ pp_actual_params # << >>)
          => /\ pp_actual_params = expected
             /\ IsPrefix(Substituted(pp_macros[pp_call.id].toks,
                                     pp_macros[pp_call.id].params, expected),
                         SubSeq(pp_output, pp_call.out0 + 1, Len(pp_output)))


\* C28: preprocess_file terminates on every finite token sequence, returning
\* either the output tokens or an error, also on invocations with any number
\* of comma-separated arguments and on streams that end inside a definition
\* or an argument list: every iteration of the scan loop and of the argument
\* loop either ends the run or the loop, or consumes at least one token.
C28_PreprocessTerminates ==
    [][(pp_pc' = pp_pc /\ pp_pc \in {"scan", "args"}) => pp_pos' > pp_pos]_vars

(***************************************************************************)
(* Claims about the lexer's cursor                                         *)
(***************************************************************************)
\* C29: for every input the cursor never exceeds the length of the file and
\* no byte past the end is read: lex_file ends with the tokens or with one
\* Error, also when the input ends inside a block comment, inside a line
\* comment of a #define body, or right after a directive.
C29_CursorInBounds ==
    /\ lb_current <= Len(lb_data)
    /\ lb_res # "panic"
    /\ lb_pc = "done" => lb_res \in {"ok", "error"}

(***************************************************************************)
(* Claims about the file store                                             *)
(***************************************************************************)
\* C5: when add triggers a copy-GC, every live file keeps the file id (its index
\* in files, plus one) it had before, with its name and source; the file that
\* the add itself replaces keeps its id and name.
C5_GcKeepsFileIds ==
    [][(fdb_ev'.op = "add" /\ fdb_ev'.gc)
         => \A i \in 1..Len(fdb_files) :
               fdb_files[i] # NoFile
                  => /\ i <= Len(fdb_files')
                     /\ fdb_files'[i] # NoFile
                     /\ fdb_files'[i].name = fdb_files[i].name
                     /\ fdb_files[i].name # CanonicalName(fdb_ev'.arg)
                           => fdb_files'[i].source = fdb_files[i].source]_vars

RECURSIVE LiveSize(_)
LiveSize(files) ==
    IF files = << >> THEN 0
    ELSE (IF Head(files) = NoFile THEN 0 ELSE FileSize(Head(files))) + LiveSize(Tail(files))

\* C30: in every reachable store (after any sequence of add, remove_str,
\* remove_id and GC) size equals the sum of size() over the live files, and
\* garbage_size equals the total size of the files removed or replaced since
\* the last GC: every call leaves size at that sum and raises garbage_size,
\* reset by a GC, by the size of the file it removed or replaced.
C30_SizeAccounting ==
    [][/\ fdb_size' = LiveSize(fdb_files')
       /\ fdb_ev'.op \in {"remove_str", "remove_id"} =>
             fdb_garbage_size' = fdb_garbage_size + (LiveSize(fdb_files) - LiveSize(fdb_files'))
       /\ fdb_ev'.op = "add" =>
             LET name == CanonicalName(fdb_ev'.arg)
                 replaced == IF name \in DOMAIN fdb_file_names
                             THEN FileSize(fdb_files[fdb_file_names[name] + 1]) ELSE 0
             IN  fdb_garbage_size' =
                    (IF fdb_ev'.gc THEN 0 ELSE fdb_garbage_size) + replaced]_vars

(***************************************************************************)
(* Claims about struct layout                                              *)
(***************************************************************************)
\* n rounded up to a multiple of a
AlignUp(n, a) == ((n + a - 1) \div a) * a

\* the end of the member before the i-th: its offset plus its size
EndOfPrevious(i) ==
    IF i = 1 THEN 0
    ELSE tc_typed_members[i - 1].offset + TCTypeSize(tc_typed_members[i - 1].decl_type)

\* C2: in a fully defined struct whose members have a size, each member's
\* offset is the end of the previous member rounded up to the member's
\* alignment, offsets do not decrease in declaration order, and the struct size
\* is the end of the last member rounded up to the largest member alignment;
\* struct {int a; char b; int c;} has offsets 0, 4, 8 and size 12.
C2_StructLayout ==
    (/\ tc_pc = "done"
     /\ tc_members # << >>
     /\ \A i \in 1..Len(tc_members) : TCTypeAlign(tc_members[i]) > 0)
      => LET n == Len(tc_typed_members) IN
         /\ n = Len(tc_members)
         /\ \A i \in 1..n :
               tc_typed_members[i].offset =
                  AlignUp(EndOfPrevious(i), TCTypeAlign(tc_members[i]))
         /\ \A i \in 1..(n - 1) :
               tc_typed_members[i].offset <= tc_typed_members[i + 1].offset
         /\ tc_sa.size =
               AlignUp(tc_typed_members[n].offset + TCTypeSize(tc_members[n]),
                       tc_sa.align)
         /\ tc_sa.align = TCTypeAlign(tc_members[
               CHOOSE i \in 1..n : \A j \in 1..n :
                  TCTypeAlign(tc_members[j]) <= TCTypeAlign(tc_members[i])])

(***************************************************************************)
(* Claims about the ecalls                                                 *)
(***************************************************************************)
IsEcallStep(ev, ops) ==
    /\ ev.kind = "step"
    /\ ev.res = "ecall"
    /\ ev.req.op \in ops

\* C11: the OpenFd ecall returns Blocked in both outcomes: when the open
\* succeeds a descriptor is appended and its index pushed, and when it fails
\* an error code is pushed and the descriptor list is unchanged.
C11_OpenFdBlocked ==
    [][IsEcallStep(k_ev', {"OpenFd"}) =>
          LET fds == processes[current_proc + 1].fds
              fds1 == processes'[current_proc + 1].fds
          IN /\ k_ev'.val = Ok(RtBlocked(k_ev'.req))
             /\ \/ /\ Len(fds1) = Len(fds) + 1
                   /\ SubSeq(fds1, 1, Len(fds)) = fds
                   /\ fds1[Len(fds1)].kind = "FileSys"
                   /\ k_ev'.pushed = PushVal(Len(fds))
                \/ /\ fds1 = fds
                   /\ "ecall_error" \in DOMAIN k_ev'.pushed]_vars

\* C12: every process starts with the four descriptors TermIn, TermOut,
\* TermErr, TermLog at the indices 0 to 3, and they stay there.
C12_InitialDescriptors ==
    \A i \in 1..Len(processes) :
       /\ Len(processes[i].fds) >= 4
       /\ SubSeq(processes[i].fds, 1, 4) = <<TermIn, TermOut, TermErr, TermLog>>

IsTermOutKind(k) == k \in {TermOut, TermErr, TermLog}

\* C13: WriteFd or AppendFd on a terminal output descriptor appends exactly one
\* event with the written bytes and the tag of the descriptor's kind at the end
\* of the output list, pushes 0 and returns Running; on TermIn or on a missing
\* descriptor no event is appended and WriteTermIn, respectively DoesntExist,
\* is pushed; on a FileSys descriptor no event is appended and Blocked returned.
C13_WriteEvents ==
    [][IsEcallStep(k_ev', {"WriteFd", "AppendFd"}) =>
          LET fds == processes[current_proc + 1].fds
              req == k_ev'.req
          IN IF req.fd + 1 > Len(fds)
             THEN /\ output' = output
                  /\ k_ev'.pushed = PushErr("DoesntExist")
             ELSE LET k == fds[req.fd + 1] IN
                  /\ k = TermIn =>
                        /\ output' = output
                        /\ k_ev'.pushed = PushErr("WriteTermIn")
                  /\ IsTermOutKind(k) =>
                        /\ output' = Append(output,
                               [tag |-> CASE k = TermOut -> "StdoutWrite"
                                          [] k = TermErr -> "StderrWrite"
                                          [] k = TermLog -> "StdlogWrite",
                                bytes |-> req.buf])
                        /\ k_ev'.pushed = PushVal(0)
                        /\ k_ev'.val = Ok(RtRunning)
                  /\ k.kind = "FileSys" =>
                        /\ output' = output
                        /\ k_ev'.val = Ok(RtBlocked(req))]_vars

C13_Witness ==
    /\ IsEcallStep(k_ev, {"AppendFd"})
    /\ k_ev.req.fd = 1
    /\ k_ev.pushed = PushVal(0)
    /\ Len(output) = 2
    /\ output[2] = [tag |-> "StdoutWrite", bytes |-> k_ev.req.buf]
    /\ output[1].bytes # output[2].bytes

\* C14: events() returns the whole output list, which holds the events of the
\* write ecalls executed since the list was last reset, in execution order
\* (between resets the list only grows, by one event at its end per write),
\* and leaves the list empty, so that no event is returned twice.
C14_EventsTransfersOutput ==
    [][/\ k_ev'.kind = "events" => (k_ev'.val = output /\ output' = << >>)
       /\ output' # output =>
             \/ /\ k_ev'.kind \in {"events", "term_out", "load_program"}
                /\ output' = << >>
             \/ /\ IsEcallStep(k_ev', {"WriteFd", "AppendFd"})
                /\ Len(output') = Len(output) + 1
                /\ SubSeq(output', 1, Len(output)) = output
                /\ output'[Len(output')].bytes = k_ev'.req.buf]_vars

C14_Witness ==
    /\ k_ev.kind = "events"
    /\ Len(k_ev.val) = 2
    /\ k_ev.val[1].bytes # k_ev.val[2].bytes
    /\ output = << >>

\* C24: current_proc_op_count never exceeds PROC_MAX_OP_COUNT: each step
\* slice is granted min(budget, 5000 - current_proc_op_count) ops, the
\* subtraction never underflows, and no process executes more than 5000 ops
\* before the cursor rotates and the counter is reset to 0, also when its
\* quantum is split over several run_op_count calls by ecalls.
C24_QuantumBound ==
    [][/\ current_proc_op_count' \in 0..PROC_MAX_OP_COUNT
       /\ (k_ev'.kind = "step" /\ k_ev'.res # "panic") =>
             LET granted == Min(count, PROC_MAX_OP_COUNT - current_proc_op_count)
             IN  /\ PROC_MAX_OP_COUNT - current_proc_op_count >= 0
                 /\ IF k_ev'.res = "none"
                    THEN /\ count - count' <= granted
                         /\ current_proc_op_count' = 0
                         /\ current_proc' = NextCursor
                    ELSE /\ current_proc_op_count' - current_proc_op_count \in 0..granted
                         /\ current_proc' = current_proc]_vars

\* a quantum that two ecalls split into slices, the second of which ended
\* exactly at the limit
C24_Witness ==
    /\ k_ev.kind = "step"
    /\ k_ev.res = "ecall"
    /\ current_proc_op_count = PROC_MAX_OP_COUNT

\* C25: if active_count = 0 when run_op_count(budget) is called, it returns
\* Exited(0) without stepping any process, for every value of budget
\* (0 included).
C25_NoActiveReturnsExited ==
    [][(k_ev.kind = "call" /\ active_count = 0)
          => (k_ev'.kind = "return" /\ k_ev'.val = Ok(RtExited(0)))]_vars

\* C26: in every reachable kernel state, active_count equals the number of
\* processes whose status is not Exited, after any interleaving of
\* load_program, ecalls, interpreter errors and exits.
C26_ActiveCount ==
    k_pc # "panic" =>
        active_count = Len(SelectSeq(processes, LAMBDA p : p.status.tag # "Exited"))

\* C27: every event appended by a terminal write is returned by exactly one
\* later events() or term_out() call; no other kernel operation (in
\* particular load_program) discards events that the host has not yet
\* collected: events() and term_out() hand over every event of the list, and
\* any other operation keeps the events that are in it.
C27_EventsNotLost ==
    [][/\ k_ev'.kind = "events" => k_ev'.val = output
       /\ k_ev'.kind = "term_out" => k_ev'.val = ConcatPayloads(output)
       /\ k_ev'.kind \notin {"events", "term_out"} => IsPrefix(output, output')]_vars

(***************************************************************************)
(* Claims about global declarations                                        *)
(***************************************************************************)
FnBodies == {i \in 1..Len(fn_stmts) : fn_stmts[i].body}

FnShouldFail ==
    \/ \E i \in 2..Len(fn_stmts) : fn_stmts[i].sig # fn_stmts[i - 1].sig
    \/ Cardinality(FnBodies) > 1

\* C15: for a sequence of declarations and definitions of one function name,
\* type checking fails iff some declaration's signature differs from the prior
\* one or the name has more than one body; an accepted function keeps its
\* single definition whatever declarations follow it.
C15_FunctionRedeclaration ==
    /\ fn_pc = "error" => FnShouldFail
    /\ fn_pc = "done" => ~FnShouldFail
    /\ (fn_pc = "done" /\ FnBodies # {}) =>
          /\ fn_functions # NoneV
          /\ fn_functions.defn # NoneV
          /\ fn_functions.defn.defn_idx + 1 \in FnBodies

StDecls == {i \in 1..Len(st_stmts) : st_stmts[i].kind \in {"decl", "defn"}}

StDefns == {i \in 1..Len(st_stmts) : st_stmts[i].kind = "defn"}

StFirst(S) == CHOOSE i \in S : \A j \in S : i <= j

\* C16: for a sequence of declarations and definitions of one struct name the
\* struct table holds one entry whose decl_idx is that of the first occurrence
\* and whose definition, once given, is kept under later forward declarations;
\* a second definition is always rejected with "redefinition of struct".
C16_StructRedeclaration ==
    /\ st_pc = "error" => (st_err = "redefinition of struct"
                           /\ Cardinality(StDefns) > 1)
    /\ st_pc = "checked" =>
          /\ Cardinality(StDefns) <= 1
          /\ StDecls # {} =>
                /\ st_structs # NoneV
                /\ st_structs.decl_idx = StFirst(StDecls) - 1
                /\ StDefns # {} =>
                      /\ st_structs.defn # NoneV
                      /\ st_structs.defn.defn_idx = StFirst(StDefns) - 1

\* C17: check_struct_type at declaration index d rejects a by-value use of a
\* struct that is undefined or defined after d, rejects every use of a struct
\* declared after d (or never), and accepts a pointer use of a struct declared
\* at or before d even when it is defined later or never.
C17_CheckStructType ==
    (st_pc = "checked" /\ st_use # NoneV) =>
       LET d == st_use.decl_idx
           by_value == st_use.pointer_count = 0
           rejected == "err" \in DOMAIN st_use.res
       IN /\ (by_value /\ \A i \in StDefns : i - 1 > d) => rejected
          /\ (\A i \in StDecls : i - 1 > d) => rejected
          /\ (~by_value /\ \E i \in StDecls : i - 1 <= d) => ~rejected
          /\ (by_value /\ st_structs # NoneV /\ st_structs.defn # NoneV
                /\ st_structs.decl_idx <= d /\ st_structs.defn.defn_idx <= d)
                => st_use.res = Ok(st_structs.defn.sa)

\* a pointer use before the definition is accepted, a by-value use at the same
\* place is rejected
C17_Witness ==
    /\ st_pc = "checked"
    /\ st_use # NoneV
    /\ st_stmts = <<[kind |-> "decl"], [kind |-> "other"],
                    [kind |-> "defn",
                     members |-> <<[kind |-> "I32", pointer_count |-> 0]>>]>>
    /\ st_use.pointer_count = 1
    /\ st_use.res = Ok([size |-> 4, align |-> 4])

(***************************************************************************)
(* Single-pass expansion and pass-through, stated on the item list of the  *)
(* input.                                                                  *)
(***************************************************************************)
\* the definitions made by the first n items, the latest definition of a name
\* taking effect
RECURSIVE DefsAfter(_, _)
DefsAfter(items, n) ==
    IF n = 0 THEN << >>
    ELSE IF items[n].t \in {"def", "fdef"}
         THEN (items[n].id :> items[n]) @@ DefsAfter(items, n - 1)
         ELSE DefsAfter(items, n - 1)

\* a single token outside an invocation: the stored body when it names an
\* object-like macro, the token itself otherwise
TokenOnce(defs, tok) ==
    IF tok.k = "Ident" /\ tok.id \in DOMAIN defs /\ defs[tok.id].t = "def"
    THEN defs[tok.id].body
    ELSE <<tok>>

RECURSIVE TokensOnce(_, _)
TokensOnce(defs, toks) ==
    IF toks = << >> THEN << >>
    ELSE TokenOnce(defs, Head(toks)) \o TokensOnce(defs, Tail(toks))

\* the replacement list with the parameter replaced by the argument tokens
RECURSIVE ReplaceParam(_, _, _)
ReplaceParam(body, param, arg) ==
    IF body = << >> THEN << >>
    ELSE (IF Head(body) = Ident(param) THEN arg ELSE <<Head(body)>>)
         \o ReplaceParam(Tail(body), param, arg)

IsInvocation(defs, item) ==
    item.t = "call" /\ item.id \in DOMAIN defs /\ defs[item.id].t = "fdef"

\* what item n contributes to the output when nothing is expanded twice
ItemOnce(items, n) ==
    LET defs == DefsAfter(items, n - 1)
        item == items[n]
    IN  CASE item.t \in {"def", "fdef"} -> << >>
          [] item.t = "tok" -> TokenOnce(defs, item.tok)
          [] item.t = "call" ->
                IF IsInvocation(defs, item)
                THEN ReplaceParam(defs[item.id].body, defs[item.id].param, item.arg)
                ELSE TokensOnce(defs, ItemTokens(item))

RECURSIVE ExpandedOnce(_, _)
ExpandedOnce(items, n) ==
    IF n = 0 THEN << >> ELSE ExpandedOnce(items, n - 1) \o ItemOnce(items, n)

\* C18: macro expansion is single-pass: a use of an object-like macro is
\* replaced by exactly its stored body tokens, and the tokens an expansion
\* places in the output (replacement-list tokens and argument tokens) are
\* never expanded again, even when they name a defined macro.  On well-formed
\* input preprocess_file finishes, and its output is the input with every
\* use expanded exactly once.
C18_SinglePass ==
    /\ pp_pc # "error"
    /\ pp_pc = "done" => pp_output = ExpandedOnce(pp_items, Len(pp_items))

\* a finished run in which an object-like body and an invocation's argument
\* both named macros that were defined at the point of use
C18_Witness ==
    /\ pp_pc = "done"
    /\ \E n \in 1..Len(pp_items) :
          LET defs == DefsAfter(pp_items, n - 1)
          IN  /\ pp_items[n].t = "tok"
              /\ pp_items[n].tok = Ident("A")
              /\ "A" \in DOMAIN defs /\ "B" \in DOMAIN defs
    /\ \E n \in 1..Len(pp_items) :
          LET defs == DefsAfter(pp_items, n - 1)
          IN  /\ IsInvocation(defs, pp_items[n])
              /\ "A" \in DOMAIN defs /\ "B" \in DOMAIN defs

\* the input tokens that are neither part of a definition, nor part of an
\* invocation of a function-like macro, nor an identifier naming a macro
\* defined earlier, in input order
NamesMacro(defs, tok) == tok.k = "Ident" /\ tok.id \in DOMAIN defs

ItemPassed(items, n) ==
    LET defs == DefsAfter(items, n - 1)
        item == items[n]
    IN  IF item.t \in {"def", "fdef"} \/ IsInvocation(defs, item)
        THEN << >>
        ELSE SelectSeq(ItemTokens(item), LAMBDA tok : ~NamesMacro(defs, tok))

RECURSIVE PassedTokens(_, _)
PassedTokens(items, n) ==
    IF n = 0 THEN << >> ELSE PassedTokens(items, n - 1) \o ItemPassed(items, n)

\* the tokens that expansions add: stored bodies and substituted replacement lists
RECURSIVE ExpansionLength(_, _)
ExpansionLength(items, n) ==
    IF n = 0 THEN 0
    ELSE ExpansionLength(items, n - 1)
         + Len(ItemOnce(items, n)) - Len(ItemPassed(items, n))

RECURSIVE IsSubseq(_, _)
IsSubseq(a, b) ==
    IF a = << >> THEN TRUE
    ELSE IF b = << >> THEN FALSE
    ELSE IF Head(a) = Head(b) THEN IsSubseq(Tail(a), Tail(b))
    ELSE IsSubseq(a, Tail(b))

\* C19: every input token that lies outside a macro definition and is not an
\* identifier naming a macro defined earlier in the stream appears in
\* preprocess_file's output unchanged and in its original relative order, and
\* the output contains no MacroDef or FuncMacroDef token and no token of a
\* definition body that was not produced by an expansion.  (The tokens of an
\* invocation of a function-like macro are read as consumed by the invocation.)
C19_PassThrough ==
    pp_pc = "done" =>
        /\ IsSubseq(PassedTokens(pp_items, Len(pp_items)), pp_output)
        /\ Len(pp_output) = Len(PassedTokens(pp_items, Len(pp_items)))
                            + ExpansionLength(pp_items, Len(pp_items))
        /\ \A i \in 1..Len(pp_output) : pp_output[i].k \notin {"MacroDef", "FuncMacroDef"}

(***************************************************************************)
(* Claims about the lexer's include handling                               *)
(***************************************************************************)
\* the files a file names in its quoted includes
IncludedBy(f) == {lx_source[f][i].base : i \in 1..Len(lx_source[f])}

\* the files reached from the files of S by at most n further includes
RECURSIVE IncludeClosure(_, _)
IncludeClosure(S, n) ==
    IF n = 0 THEN S
    ELSE IncludeClosure(S \cup UNION {IncludedBy(f) : f \in S}, n - 1)

ReachedFrom(f) == IncludeClosure({f}, Cardinality(LexFiles))

\* the include chain of f leads back to a file on the chain
LeadsBack(f) ==
    \E g \in ReachedFrom(f) : g \in IncludeClosure(IncludedBy(g), Cardinality(LexFiles))

\* C20: lexing a file whose quoted #include chain leads back to a file that
\* is still being lexed (the root file included) ends with the error
\* "include cycle detected", and after the failure token_db holds entries
\* only for files that were lexed to completion.
C20_IncludeCycle ==
    /\ lx_pc = "run" => lx_stack # << >>
    /\ (lx_pc = "done" /\ LeadsBack(lx_names[lx_root].base)) =>
          /\ lx_res = "include cycle detected"
          /\ lx_token_db \subseteq lx_completed

\* the ids under which a file of the directory is known to the file store
IdsOf(f) == {id \in 1..Len(lx_names) : lx_names[id].base = f}

\* C21: including the same file a second time, from the same or from another
\* file, yields the same file id and reuses the cached token slice: every
\* file has at most one id, and is lexed to its end and inserted into
\* token_db at most once.
C21_IncludeIdempotent ==
    \A f \in LexFiles :
        /\ Cardinality(IdsOf(f)) <= 1
        /\ Cardinality(IdsOf(f) \cap lx_completed) <= 1
        /\ Cardinality(IdsOf(f) \cap lx_token_db) <= 1

(***************************************************************************)
(* Claims about the symbol table                                           *)
(***************************************************************************)
SymbolIds == 0..Len(sym_names) - 1

\* C22: after any sequence of translate_add calls, two ranges have the same
\* symbol id iff their texts are equal (distinct ids hold distinct texts, and
\* a call returns the id whose text is the text of its range),
\* symbol_to_str(id) returns the text interned under id, ids issued earlier
\* never change, and a text equal to a built-in name receives that name's
\* preallocated id.
C22_SymbolInterning ==
    /\ \A i, j \in SymbolIds :
          symbol_to_str(sym_files, sym_names, i) = symbol_to_str(sym_files, sym_names, j)
              => i = j
    /\ \A text \in DOMAIN sym_translate :
          /\ sym_translate[text] \in SymbolIds
          /\ symbol_to_str(sym_files, sym_names, sym_translate[text]) = text
    /\ \A k \in 1..Len(INIT_SYMS) :
          /\ symbol_to_str(sym_files, sym_names, k - 1) = INIT_SYMS[k]
          /\ sym_translate[INIT_SYMS[k]] = k - 1
    /\ sym_ev.kind = "translate_add" =>
          /\ sym_ev.id \in SymbolIds
          /\ symbol_to_str(sym_files, sym_names, sym_ev.id) = cloc_to_str(sym_files, sym_ev.cloc)
          /\ IsPrefix(sym_ev.before, sym_names)

\* a range of a user file spelling a built-in name was interned after two new
\* symbols, and received the built-in id
C22_Witness ==
    /\ sym_ev.kind = "translate_add"
    /\ sym_ev.cloc.file > 0
    /\ sym_ev.id < Len(INIT_SYMS)
    /\ Len(sym_names) = Len(INIT_SYMS) + 2

=============================================================================
